---- MODULE Spec2Model ----
(***************************************************************************)
(* Model of the meal-delivery simulation engine (flohilde/meal_delivery):  *)
(* Restaurant (src/src/restaurant.py), Vehicle and Stop                    *)
(* (src/src/vehicle.py) and MealDeliveryMDP (src/src/state.py).            *)
(*                                                                         *)
(* Python lists are sequences; list indices are kept 0-based as in the     *)
(* source and translated by the Py* helpers.  An uncaught Python exception *)
(* is modelled by the variable error: the handler stops at the statement   *)
(* that raises, the mutations made before it stay, and nothing runs after. *)
(***************************************************************************)
EXTENDS Integers, Sequences, FiniteSets, TLC

VARIABLES
    config,             \* the instance configuration read by MealDeliveryMDP.__init__
    day,                \* MealDeliveryMDP.day
    time,               \* MealDeliveryMDP.time
    restaurants,        \* MealDeliveryMDP.restaurants: id -> Restaurant
    vehicles,           \* MealDeliveryMDP.vehicles: id -> Vehicle
    customers,          \* MealDeliveryMDP.customers: id -> Customer
    unknown_requests,   \* customers that have not ordered yet (list of ids)
    known_requests,     \* revealed, not yet served (list of ids)
    served_requests,    \* served (list of ids)
    unassigned_orders,  \* list of <<customer, restaurant>> pairs
    pc,                 \* position of the driver / of step
    error,              \* "none", or the exception that ended the run
    last_call,          \* the operation that produced this state, with its arguments
    inserted,           \* number of stops the policy has had inserted this day
    given               \* pairs <<customer, restaurant>> handed to take_order so far

vars == <<config, day, time, restaurants, vehicles, customers, unknown_requests,
          known_requests, served_requests, unassigned_orders, pc, error,
          last_call, inserted, given>>

----------------------------------------------------------------------------
(* Python values and list operations *)

\* Python's None (Stop.started_at, Customer.delivery_time values); no time is negative
\* and the only other negative number the program uses is the -1 sentinel.
None == -2

\* None where the program expects a list (VehicleAction.orders_to_pickup of a delivery):
\* a value of the type of a list that is no list of ids
NoneList == <<None>>

Max2(a, b) == IF a >= b THEN a ELSE b
Min2(a, b) == IF a <= b THEN a ELSE b

\* lst[i] is defined for -len <= i < len
PyInRange(s, i) == (-Len(s) <= i) /\ (i < Len(s))
PyGet(s, i) == IF i < 0 THEN s[Len(s) + i + 1] ELSE s[i + 1]
PySet(s, i, x) == [s EXCEPT ![IF i < 0 THEN Len(s) + i + 1 ELSE i + 1] = x]

\* list.insert(i, x): the index is clamped to [0, len]
PyInsert(s, i, x) ==
    LET k == IF i < 0 THEN Max2(0, Len(s) + i) ELSE Min2(i, Len(s))
    IN SubSeq(s, 1, k) \o <<x>> \o SubSeq(s, k + 1, Len(s))

\* list.pop(i) for 0 <= i < len: the list without element i
PyPop(s, i) == SubSeq(s, 1, i) \o SubSeq(s, i + 2, Len(s))

\* list.index(x): 0-based position of the first element equal to x (x occurs in s)
PyIndexOf(s, x) == (CHOOSE k \in 1..Len(s) : s[k] = x /\ \A j \in 1..(k - 1) : s[j] # x) - 1

Range(s) == {s[k] : k \in 1..Len(s)}

----------------------------------------------------------------------------
(* Restaurant (src/src/restaurant.py) *)

\* Order.__init__.  Every order of a run has its own customer_id (one order per
\* customer and restaurant), so record equality coincides with Python's object identity.
Order(customer_id, start_at, estimated_preparation_time, actual_preparation_time) ==
    [customer_id |-> customer_id, start_at |-> start_at,
     estimated_preparation_time |-> estimated_preparation_time,
     actual_preparation_time |-> actual_preparation_time]

\* Restaurant.__init__
Restaurant(id_number, location) ==
    [name |-> id_number, location |-> location, queue |-> <<>>, time_queue |-> <<>>,
     estimated_time_queue |-> <<>>, prepared_orders |-> <<>>]

NoCall == [op |-> "init"]

Ok(r) == [r |-> r, err |-> "none"]
Raise(r, e) == [r |-> r, err |-> e]

\* take_order, lines 120-122: for i in range(insertion_index + 1, len(self.queue))
RECURSIVE ShiftLoop(_, _, _, _)
ShiftLoop(r, i, n, order) ==
    IF i >= n THEN Ok(r)
    ELSE IF ~PyInRange(r.estimated_time_queue, i) THEN Raise(r, "IndexError")
    ELSE LET r1 == [r EXCEPT !.estimated_time_queue =
                        PySet(@, i, PyGet(@, i) + order.estimated_preparation_time)]
         IN IF ~PyInRange(r1.time_queue, i) THEN Raise(r1, "IndexError")
            ELSE ShiftLoop([r1 EXCEPT !.time_queue =
                                PySet(@, i, PyGet(@, i) + order.actual_preparation_time)],
                           i + 1, n, order)

\* Restaurant.take_order(insertion_index, order, time), insertion_index >= -1
take_order(r, insertion_index, order, t) ==
    LET e == order.estimated_preparation_time
        a == order.actual_preparation_time
        r1 == [r EXCEPT !.queue = IF insertion_index = -1 THEN Append(@, order)
                                  ELSE PyInsert(@, insertion_index, order)]
    IN IF Len(r1.queue) = 1
       THEN Ok([r1 EXCEPT !.estimated_time_queue = Append(@, t + e),
                          !.time_queue = Append(@, t + a)])
       ELSE IF insertion_index = -1
       THEN IF ~PyInRange(r1.estimated_time_queue, -1) THEN Raise(r1, "IndexError")
            ELSE LET r2 == [r1 EXCEPT !.estimated_time_queue = Append(@, PyGet(@, -1) + e)]
                 IN IF ~PyInRange(r2.time_queue, -1) THEN Raise(r2, "IndexError")
                    ELSE Ok([r2 EXCEPT !.time_queue = Append(@, PyGet(@, -1) + a)])
       ELSE IF ~PyInRange(r1.estimated_time_queue, insertion_index - 1)
            THEN Raise(r1, "IndexError")
            ELSE LET r2 == [r1 EXCEPT !.estimated_time_queue =
                                PyInsert(@, insertion_index, PyGet(@, insertion_index - 1) + e)]
                 IN IF ~PyInRange(r2.time_queue, insertion_index - 1)
                    THEN Raise(r2, "IndexError")
                    ELSE \* line 118 inserts into estimated_time_queue a second time
                         LET r3 == [r2 EXCEPT !.estimated_time_queue =
                                        PyInsert(@, insertion_index,
                                                 PyGet(r2.time_queue, insertion_index - 1) + a)]
                         IN ShiftLoop(r3, insertion_index + 1, Len(r3.queue), order)

\* Restaurant.update, lines 89-96: "for cook_time in self.time_queue" is Python's list
\* iterator: it reads position it of the list as it is now and stops when it >= len.
RECURSIVE UpdateLoop(_, _, _)
UpdateLoop(r, it, t) ==
    IF it >= Len(r.time_queue) THEN Ok(r)
    ELSE LET cook_time == PyGet(r.time_queue, it)
         IN IF cook_time <= t
            THEN LET index == PyIndexOf(r.time_queue, cook_time)
                 IN IF ~(index < Len(r.queue)) THEN Raise(r, "IndexError")
                    ELSE LET r1 == [r EXCEPT !.prepared_orders = Append(@, PyGet(r.queue, index)),
                                             !.queue = PyPop(@, index),
                                             !.time_queue = PyPop(@, index)]
                         IN IF ~(index < Len(r1.estimated_time_queue))
                            THEN Raise(r1, "IndexError")
                            ELSE UpdateLoop([r1 EXCEPT !.estimated_time_queue = PyPop(@, index)],
                                            it + 1, t)
            ELSE Ok(r)

\* Restaurant.update(time)
update(r, t) == UpdateLoop(r, 0, t)

\* lines 128 / 138: the orders of the queue named in orders and not in prepared_orders
WaitingOrders(r, orders) ==
    SelectSeq(r.queue, LAMBDA o : o.customer_id \in orders /\ o \notin Range(r.prepared_orders))

\* lines 129-132 / 139-142 on the series given
WaitingTime(r, series, orders, t) ==
    LET os == WaitingOrders(r, orders)
    IN IF Len(os) = 0 THEN [val |-> 0, err |-> "none"]
       ELSE LET idx == {PyIndexOf(r.queue, os[k]) : k \in 1..Len(os)}
                max_index == CHOOSE m \in idx : \A j \in idx : j <= m
            IN IF ~PyInRange(series, max_index) THEN [val |-> 0, err |-> "IndexError"]
               ELSE [val |-> Max2(0, PyGet(series, max_index) - t), err |-> "none"]

\* Restaurant.get_actual_waiting_time(orders, time)
get_actual_waiting_time(r, orders, t) == WaitingTime(r, r.time_queue, orders, t)

\* Restaurant.get_estimated_waiting_time(orders, time)
get_estimated_waiting_time(r, orders, t) == WaitingTime(r, r.estimated_time_queue, orders, t)

----------------------------------------------------------------------------
(* The instance the engine is configured with (MealDeliveryMDP.__init__): the files and
   scalars of the config, here a small street graph *)

restaurant_location_list == <<2, 3>>    \* node of restaurant i (0-based i)
vehicle_location_list == <<0>>          \* start node of vehicle i
locations == <<1>>                      \* customer locations
n_vehicles == Len(vehicle_location_list)
\* the number of restaurants _init_restaurants takes the instance to have: the literal
\* 110 of lines 326-329, scaled to the size of the small instance
AllLocations == 2
expected_cook_time == 300
expected_parking_time == 20
service_promise == 40
\* the values _sample_cook_time and _sample_parking_time can draw (seconds)
CookTimes == {300, 700}
ParkTimes == {20, 50}

\* MealDeliveryMDP._sample_travel_time: the lookup in tt_matrix
_sample_travel_time(origin, destination) ==
    IF origin >= destination THEN 100 * (origin - destination)
    ELSE 100 * (destination - origin)

----------------------------------------------------------------------------
(* Stop and Vehicle (src/src/vehicle.py) *)

\* the assertions of Stop.__init__ (orders_to_pickup is a list or None)
StopAsserts(stop_type, restaurant_id, customer_id, estimated_wait_time, actual_wait_time, orders_to_pickup) ==
    /\ stop_type \in {"pickup", "delivery", "relocation"}
    /\ stop_type = "pickup" =>
           /\ orders_to_pickup # NoneList /\ orders_to_pickup # <<>>
           /\ restaurant_id # None
           /\ customer_id = None
    /\ stop_type = "delivery" =>
           /\ estimated_wait_time = 0 /\ actual_wait_time = 0
           /\ restaurant_id = None
           /\ customer_id # None
    /\ stop_type = "relocation" =>
           /\ estimated_wait_time = 0 /\ actual_wait_time = 0
           /\ restaurant_id = None
           /\ customer_id = None

\* Stop.__init__.  The last three fields are not in the source: they record, for the
\* properties below, the start_at the action asked for, the time of the insertion and
\* whether the stop was the only stop of the route when it was inserted.
Stop(stop_type, destination, restaurant_id, customer_id, start_at, estimated_travel_time, actual_travel_time, estimated_park_time, actual_park_time, estimated_wait_time, actual_wait_time, orders_to_pickup) ==
    [type |-> stop_type, destination |-> destination, customer_id |-> customer_id,
     restaurant_id |-> restaurant_id, start_at |-> start_at, started_at |-> None,
     estimated_travel_time |-> estimated_travel_time,
     actual_travel_time |-> actual_travel_time,
     estimated_park_time |-> estimated_park_time, actual_park_time |-> actual_park_time,
     estimated_wait_time |-> estimated_wait_time, actual_wait_time |-> actual_wait_time,
     orders_to_pickup |-> orders_to_pickup,
     requested_start_at |-> start_at, inserted_at |-> None, sole_on_insert |-> FALSE]

\* Stop.estimated_total_time
estimated_total_time(stop) ==
    stop.estimated_travel_time + stop.estimated_park_time + stop.estimated_wait_time

\* Stop.actual_total_time (the source sums the estimated fields here as well)
actual_total_time(stop) ==
    stop.estimated_travel_time + stop.estimated_park_time + stop.estimated_wait_time

\* Vehicle.__init__
Vehicle(id_number, location) ==
    [name |-> id_number, location |-> location, sequence_of_stops |-> <<>>,
     orders_in_backpack |-> <<>>]

\* dict[key] = value on a dict kept as a list of <<key, value>> in insertion order
DictPut(d, key, value) ==
    IF \E k \in 1..Len(d) : d[k][1] = key
    THEN [k \in 1..Len(d) |-> IF d[k][1] = key THEN <<key, value>> ELSE d[k]]
    ELSE Append(d, <<key, value>>)

\* of the orders in the backpack for a customer, the first one only
FirstCarriedFor(backpack, customer_id) ==
    LET all == SelectSeq(backpack, LAMBDA rc : rc[2] = customer_id)
    IN IF all = <<>> THEN <<>> ELSE <<all[1]>>

\* Vehicle.update, lines 162-163: the orders in the backpack for the customer of a
\* delivery stop
CarriedFor(backpack, customer_id) == SelectSeq(backpack, LAMBDA rc : rc[2] = customer_id)

\* Vehicle.update, lines 143-163; _time is the local of the source, popped collects the
\* stops removed (with the started_at they ended with) for the properties below
RECURSIVE VehicleUpdateLoop(_, _, _, _, _, _)
VehicleUpdateLoop(v, _time, t, picked_up, delivered, popped) ==
    IF v.sequence_of_stops = <<>>
    THEN [v |-> v, picked_up |-> picked_up, delivered |-> delivered, popped |-> popped]
    ELSE LET head == v.sequence_of_stops[1]
             started == IF head.started_at = None
                        THEN IF head.start_at # -1 /\ head.start_at <= _time
                             THEN [head EXCEPT !.started_at = head.start_at]
                             ELSE [head EXCEPT !.started_at = _time]
                        ELSE head
             time1 == started.started_at + actual_total_time(started)
             v1 == [v EXCEPT !.sequence_of_stops[1] = started]
         IN IF time1 > t
            THEN [v |-> v1, picked_up |-> picked_up, delivered |-> delivered,
                  popped |-> popped]
            ELSE LET stop == started
                     backpack == IF stop.type = "pickup"
                                 THEN v1.orders_in_backpack \o
                                      [k \in 1..Len(stop.orders_to_pickup) |->
                                          <<stop.restaurant_id, stop.orders_to_pickup[k]>>]
                                 ELSE v1.orders_in_backpack
                     v2 == [v1 EXCEPT !.sequence_of_stops = Tail(@),
                                      !.orders_in_backpack = backpack]
                     picked_up1 == IF stop.type = "pickup"
                                   THEN DictPut(picked_up, stop.restaurant_id,
                                                stop.orders_to_pickup)
                                   ELSE picked_up
                     mine == CarriedFor(backpack, stop.customer_id)
                     delivered1 == IF stop.type = "delivery"
                                   THEN DictPut(delivered, stop.customer_id,
                                                [k \in 1..Len(mine) |-> <<mine[k][1], time1>>])
                                   ELSE delivered
                 IN VehicleUpdateLoop(v2, time1, t, picked_up1, delivered1,
                                      Append(popped, stop))

\* Vehicle.update(time)
VehicleUpdate(v, t) == VehicleUpdateLoop(v, t, t, <<>>, <<>>, <<>>)

\* Vehicle.estimated_busy_time(current_time)
estimated_busy_time(v, current_time) ==
    IF v.sequence_of_stops # <<>>
    THEN LET t_diff == IF v.sequence_of_stops[1].started_at # None
                       THEN v.sequence_of_stops[1].started_at - current_time
                       ELSE 0
             F[k \in 0..Len(v.sequence_of_stops)] ==
                 IF k = 0 THEN 0 ELSE F[k - 1] + estimated_total_time(v.sequence_of_stops[k])
         IN F[Len(v.sequence_of_stops)] + t_diff
    ELSE 0

----------------------------------------------------------------------------
(* Customer (src/src/customer.py) *)

\* Customer.__init__; restaurant_choice is a list of restaurant ids
Customer(id_number, location, order_time, expected_delivery_time, restaurant_choice) ==
    [name |-> id_number, location |-> location, status |-> -1, order_time |-> order_time,
     expected_delivery_time |-> expected_delivery_time,
     restaurant_choice |-> restaurant_choice,
     delivery_time |-> [r \in Range(restaurant_choice) |-> None]]

----------------------------------------------------------------------------
(* MealDeliveryMDP (src/src/state.py).  The operators below take and return the
   engine's attributes as one record s; s.err is the exception raised, if any. *)

Engine == [time |-> time, restaurants |-> restaurants, vehicles |-> vehicles,
           customers |-> customers, unknown_requests |-> unknown_requests,
           known_requests |-> known_requests, served_requests |-> served_requests,
           unassigned_orders |-> unassigned_orders, err |-> error]

\* A destination of a VehicleAction is [kind |-> "int", id |-> node] for an int and
\* [kind |-> k, id |-> i] for the string "k_i" (kind "r": restaurant, "c": customer).

\* _construct_stop_from_vehicle_action, lines 407-413 (repeated at 427-433, 446-452)
Origin(vehicle, insertion_index) ==
    LET route == vehicle.sequence_of_stops
    IN IF route = <<>> THEN [val |-> vehicle.location, err |-> "none"]
       ELSE IF insertion_index # -1
       THEN IF PyInRange(route, insertion_index - 1)
            THEN [val |-> PyGet(route, insertion_index - 1).destination, err |-> "none"]
            ELSE [val |-> None, err |-> "IndexError"]
       ELSE [val |-> PyGet(route, -1).destination, err |-> "none"]

\* MealDeliveryMDP._construct_stop_from_vehicle_action(vehicle, vehicle_action);
\* park is the value _sample_parking_time draws
_construct_stop_from_vehicle_action(s, vehicle, vehicle_action) ==
    LET dest == vehicle_action.destination
        kind == dest.kind
        origin == Origin(vehicle, vehicle_action.insertion_index)
        NoStop(e) == [stop |-> None, err |-> e]
        Build(stop_type, destination, restaurant_id, customer_id) ==
            IF origin.err # "none" THEN NoStop(origin.err)
            ELSE IF ~StopAsserts(stop_type, restaurant_id, customer_id, 0, 0,
                                 vehicle_action.orders_to_pickup)
            THEN NoStop("AssertionError")
            ELSE [stop |-> Stop(stop_type, destination, restaurant_id, customer_id,
                                vehicle_action.start_at,
                                _sample_travel_time(origin.val, destination),
                                _sample_travel_time(origin.val, destination),
                                expected_parking_time, vehicle_action.park, 0, 0,
                                vehicle_action.orders_to_pickup),
                  err |-> "none"]
    IN IF kind = "int" THEN Build("relocation", dest.id, None, None)
       ELSE IF kind = "r"
       THEN IF dest.id \notin DOMAIN s.restaurants THEN NoStop("KeyError")
            ELSE Build("pickup", s.restaurants[dest.id].location, dest.id, None)
       ELSE IF kind = "c"
       THEN IF dest.id \notin DOMAIN s.customers THEN NoStop("KeyError")
            ELSE Build("delivery", s.customers[dest.id].location, None, dest.id)
       ELSE IF kind = "float" THEN NoStop("TypeError")
       ELSE NoStop("Warning")

\* list.remove(x): the list without the first element equal to x (x occurs in s)
PyRemove(s, x) == PyPop(s, PyIndexOf(s, x))

\* a removal that passes over a pair that is not in the list
DiscardPair(unassigned, pair) ==
    IF pair \notin Range(unassigned) THEN [list |-> unassigned, err |-> "none"]
    ELSE [list |-> PyRemove(unassigned, pair), err |-> "none"]

\* step, line 242: unassigned_orders.remove(pair), which raises ValueError for a pair
\* that is not in the list
RemovePair(unassigned, pair) ==
    IF pair \notin Range(unassigned) THEN [list |-> unassigned, err |-> "ValueError"]
    ELSE [list |-> PyRemove(unassigned, pair), err |-> "none"]

\* step, lines 240-242: unassigned_orders.remove for every order of a pickup stop
RECURSIVE RemoveAssigned(_, _, _)
RemoveAssigned(unassigned, restaurant_id, orders_to_pickup) ==
    IF orders_to_pickup = <<>> THEN [list |-> unassigned, err |-> "none"]
    ELSE LET removed == RemovePair(unassigned, <<Head(orders_to_pickup), restaurant_id>>)
         IN IF removed.err # "none" THEN removed
            ELSE RemoveAssigned(removed.list, restaurant_id, Tail(orders_to_pickup))

\* _repair_vehicle_route, lines 475-494: the loop from stop_index on
RECURSIVE RepairLoop(_, _, _, _, _, _)
RepairLoop(route, stop_index, estimated_time, actual_time, rs, t) ==
    IF stop_index >= Len(route) THEN [route |-> route, err |-> "none"]
    ELSE LET stop0 == PyGet(route, stop_index)
             stop1 == IF stop0.start_at # -1 /\ stop0.start_at <= actual_time
                      THEN [stop0 EXCEPT !.start_at = actual_time] ELSE stop0
             travel == _sample_travel_time(PyGet(route, stop_index - 1).destination,
                                           stop1.destination)
             stop2 == IF stop_index # 0
                      THEN [stop1 EXCEPT !.actual_travel_time = travel,
                                         !.estimated_travel_time = travel]
                      ELSE stop1
             estimated_time1 == Max2(stop2.start_at, estimated_time)
                                + stop2.estimated_travel_time + stop2.estimated_park_time
             actual_time1 == Max2(stop2.start_at, actual_time)
                             + stop2.actual_travel_time + stop2.actual_park_time
         IN IF stop2.type = "pickup"
            THEN LET restaurant == rs[stop2.restaurant_id]
                     ew == get_estimated_waiting_time(restaurant, Range(stop2.orders_to_pickup),
                                                      estimated_time1)
                     aw == get_actual_waiting_time(restaurant, Range(stop2.orders_to_pickup),
                                                   actual_time1)
                 IN IF ew.err # "none"
                    THEN [route |-> PySet(route, stop_index, stop2), err |-> ew.err]
                    ELSE IF aw.err # "none"
                    THEN [route |-> PySet(route, stop_index, stop2), err |-> aw.err]
                    ELSE RepairLoop(PySet(route, stop_index,
                                          [stop2 EXCEPT !.estimated_wait_time = ew.val,
                                                        !.actual_wait_time = aw.val]),
                                    stop_index + 1, estimated_time1 + ew.val,
                                    actual_time1 + aw.val, rs, t)
            ELSE RepairLoop(PySet(route, stop_index, stop2), stop_index + 1,
                            estimated_time1, actual_time1, rs, t)

\* _repair_vehicle_route with += in place of = at lines 491 and 492
RepairAddingWait(route, rs, t) ==
    LET start == IF route[1].started_at # None THEN route[1].started_at ELSE t
        rep == RepairLoop(route, 0, start, start, rs, t)
    IN [rep EXCEPT !.route =
           [k \in DOMAIN rep.route |->
               [rep.route[k] EXCEPT
                   !.estimated_wait_time = route[k].estimated_wait_time + @,
                   !.actual_wait_time = route[k].actual_wait_time + @]]]

\* MealDeliveryMDP._repair_vehicle_route(vehicle) on the vehicle's non-empty route, with
\* the restaurants rs and the current time t
_repair_vehicle_route(route, rs, t) ==
    LET start == IF route[1].started_at # None THEN route[1].started_at ELSE t
    IN RepairLoop(route, 0, start, start, rs, t)

\* step, lines 224-231, for one restaurant: each r_action is
\* [customer_id, start_at, insertion_index, cook], cook the value _sample_cook_time draws
RECURSIVE TakeOrders(_, _, _)
TakeOrders(s, rid, r_actions) ==
    IF r_actions = <<>> \/ s.err # "none" THEN s
    ELSE LET a == Head(r_actions)
             order == Order(a.customer_id, a.start_at, expected_cook_time, a.cook)
             res == take_order(s.restaurants[rid], a.insertion_index, order, s.time)
         IN TakeOrders([s EXCEPT !.restaurants[rid] = res.r, !.err = res.err],
                       rid, Tail(r_actions))

\* step, lines 223-231: the restaurants named in the action, in the order of the dict
\* (ascending ids)
RECURSIVE IntegrateRestaurants(_, _, _)
IntegrateRestaurants(s, restaurant_action, i) ==
    IF i >= AllLocations \/ s.err # "none" THEN s
    ELSE IF i \in DOMAIN s.restaurants /\ i \in DOMAIN restaurant_action
    THEN IntegrateRestaurants(TakeOrders(s, i, restaurant_action[i]), restaurant_action, i + 1)
    ELSE IntegrateRestaurants(s, restaurant_action, i + 1)

\* step, lines 252-254, without the restriction to a start_at the action asked for
StartIfSoleRequested(route, start_at, t) ==
    IF Len(route) = 1 /\ start_at # -1 /\ start_at <= t
    THEN [route EXCEPT ![1].started_at = t]
    ELSE route

\* step, lines 252-254: the stop that is alone in the route starts right away
StartIfSole(route, start_at, t) ==
    IF Len(route) = 1 /\ start_at <= t
    THEN [route EXCEPT ![1].started_at = t]
    ELSE route

\* step, lines 236-254, for one vehicle: each v_action is
\* [destination, start_at, insertion_index, orders_to_pickup, orders_to_deliver, park]
RECURSIVE InsertStops(_, _, _)
InsertStops(s, vid, v_actions) ==
    IF v_actions = <<>> \/ s.err # "none" THEN s
    ELSE LET a == Head(v_actions)
             c == _construct_stop_from_vehicle_action(s, s.vehicles[vid], a)
         IN IF c.err # "none" THEN [s EXCEPT !.err = c.err]
            ELSE LET rem == IF c.stop.type = "pickup"
                            THEN RemoveAssigned(s.unassigned_orders, c.stop.restaurant_id,
                                                c.stop.orders_to_pickup)
                            ELSE [list |-> s.unassigned_orders, err |-> "none"]
                     route0 == s.vehicles[vid].sequence_of_stops
                     stop == [c.stop EXCEPT !.inserted_at = s.time,
                                            !.sole_on_insert = (route0 = <<>>)]
                     route1 == IF a.insertion_index = -1 THEN Append(route0, stop)
                               ELSE PyInsert(route0, a.insertion_index, stop)
                     route2 == StartIfSole(route1, a.start_at, s.time)
                 IN IF rem.err # "none"
                    THEN [s EXCEPT !.unassigned_orders = rem.list, !.err = rem.err]
                    ELSE InsertStops([s EXCEPT !.unassigned_orders = rem.list,
                                               !.vehicles[vid].sequence_of_stops = route2],
                                     vid, Tail(v_actions))

\* step, lines 234-254: the vehicles named in the action, in the order of the dict
RECURSIVE IntegrateVehicles(_, _, _)
IntegrateVehicles(s, vehicle_action, i) ==
    IF i >= n_vehicles \/ s.err # "none" THEN s
    ELSE IF i \in DOMAIN s.vehicles /\ i \in DOMAIN vehicle_action
    THEN LET s1 == InsertStops(s, i, vehicle_action[i])
             route == s1.vehicles[i].sequence_of_stops
             rep == _repair_vehicle_route(route, s1.restaurants, s1.time)
         IN IF s1.err # "none" THEN s1
            ELSE IF route = <<>> THEN IntegrateVehicles(s1, vehicle_action, i + 1)
            ELSE IntegrateVehicles([s1 EXCEPT !.vehicles[i].sequence_of_stops = rep.route,
                                              !.err = rep.err],
                                   vehicle_action, i + 1)
    ELSE IntegrateVehicles(s, vehicle_action, i + 1)

\* step, lines 219-257: the action is integrated into the restaurants, then the vehicles
StepIntegrate(s, action) ==
    IntegrateVehicles(IntegrateRestaurants(s, action.restaurant_action, 0),
                      action.vehicle_action, 0)

\* step, lines 271-272
RECURSIVE UpdateRestaurants(_, _)
UpdateRestaurants(s, i) ==
    IF i >= AllLocations \/ s.err # "none" THEN s
    ELSE IF i \in DOMAIN s.restaurants
    THEN LET res == update(s.restaurants[i], s.time)
         IN UpdateRestaurants([s EXCEPT !.restaurants[i] = res.r, !.err = res.err], i + 1)
    ELSE UpdateRestaurants(s, i + 1)

\* step, lines 277-280: picked_up is the dict returned by Vehicle.update, in key order
RECURSIVE ApplyPickedUp(_, _)
ApplyPickedUp(s, picked_up) ==
    IF picked_up = <<>> THEN s
    ELSE LET restaurant_id == Head(picked_up)[1]
             picked_up_orders == Range(Head(picked_up)[2])
         IN ApplyPickedUp(
                [s EXCEPT !.restaurants[restaurant_id].prepared_orders =
                     SelectSeq(@, LAMBDA order : order.customer_id \notin picked_up_orders)],
                Tail(picked_up))

\* step, lines 283-285, for one customer: delivered_orders is a list of <<restaurant, time>>
RECURSIVE RecordDeliveries(_, _, _, _)
RecordDeliveries(s, vid, customer_id, delivered_orders) ==
    IF delivered_orders = <<>> \/ s.err # "none" THEN s
    ELSE LET restaurant_id == Head(delivered_orders)[1]
             t == Head(delivered_orders)[2]
             old == s.customers[customer_id].delivery_time
             s1 == [s EXCEPT !.customers[customer_id].delivery_time =
                        [r \in DOMAIN old \cup {restaurant_id} |->
                            IF r = restaurant_id THEN t ELSE old[r]]]
             pair == <<restaurant_id, customer_id>>
         IN IF pair \notin Range(s1.vehicles[vid].orders_in_backpack)
            THEN [s1 EXCEPT !.err = "ValueError"]
            ELSE RecordDeliveries(
                     [s1 EXCEPT !.vehicles[vid].orders_in_backpack = PyRemove(@, pair)],
                     vid, customer_id, Tail(delivered_orders))

\* a customer counted as served with the first delivery
AnyDelivered(times) == \E r \in DOMAIN times : times[r] # None

\* step, line 286: None not in customer.delivery_time.values()
AllDelivered(times) == \A r \in DOMAIN times : times[r] # None

\* step, lines 281-289: delivered is the dict returned by Vehicle.update, in key order
RECURSIVE ApplyDelivered(_, _, _)
ApplyDelivered(s, vid, delivered) ==
    IF delivered = <<>> \/ s.err # "none" THEN s
    ELSE LET customer_id == Head(delivered)[1]
             s1 == RecordDeliveries(s, vid, customer_id, Head(delivered)[2])
             times == s1.customers[customer_id].delivery_time
         IN IF s1.err # "none" THEN s1
            ELSE IF AllDelivered(times)
            THEN LET s2 == [s1 EXCEPT !.customers[customer_id].status = 1,
                                      !.served_requests = Append(@, customer_id)]
                 IN IF customer_id \notin Range(s2.known_requests)
                    THEN [s2 EXCEPT !.err = "ValueError"]
                    ELSE ApplyDelivered([s2 EXCEPT !.known_requests = PyRemove(@, customer_id)],
                                        vid, Tail(delivered))
            ELSE ApplyDelivered(s1, vid, Tail(delivered))

\* step, lines 275-289
RECURSIVE UpdateVehicles(_, _)
UpdateVehicles(s, i) ==
    IF i >= n_vehicles \/ s.err # "none" THEN s
    ELSE LET res == VehicleUpdate(s.vehicles[i], s.time)
             s1 == [s EXCEPT !.vehicles[i] = res.v]
         IN UpdateVehicles(ApplyDelivered(ApplyPickedUp(s1, res.picked_up), i, res.delivered),
                           i + 1)

\* a step that reveals the customer at the end of unknown_requests
RevealLast(s) ==
    IF s.unknown_requests # <<>>
    THEN LET new_customer == s.unknown_requests[Len(s.unknown_requests)]
             choice == s.customers[new_customer].restaurant_choice
         IN [s EXCEPT !.unknown_requests = SubSeq(@, 1, Len(@) - 1),
                      !.customers[new_customer].status = 0,
                      !.known_requests = Append(@, new_customer),
                      !.unassigned_orders =
                          @ \o [k \in 1..Len(choice) |-> <<new_customer, choice[k]>>],
                      !.time = s.customers[new_customer].order_time]
    ELSE [s EXCEPT !.time = @ + 360]

\* step, lines 260-268: the next customer is revealed, or the clock moves by 360
RevealOrForward(s) ==
    IF s.unknown_requests # <<>>
    THEN LET new_customer == Head(s.unknown_requests)
             choice == s.customers[new_customer].restaurant_choice
         IN [s EXCEPT !.unknown_requests = Tail(@),
                      !.customers[new_customer].status = 0,
                      !.known_requests = Append(@, new_customer),
                      !.unassigned_orders =
                          @ \o [k \in 1..Len(choice) |-> <<new_customer, choice[k]>>],
                      !.time = s.customers[new_customer].order_time]
    ELSE [s EXCEPT !.time = @ + 360]

\* step, lines 259-289
StepAdvance(s) == UpdateVehicles(UpdateRestaurants(RevealOrForward(s), 0), 0)

\* the time of a customer's last delivery less the promised time, below 0 when early
lateness(customer) ==
    LET times == {customer.delivery_time[r] : r \in DOMAIN customer.delivery_time}
    IN (CHOOSE t \in times : \A u \in times : u <= t) - customer.expected_delivery_time

\* mean_delay, line 167: max(0, max(delivery_time.values()) - expected_delivery_time)
delay(customer) == IF lateness(customer) > 0 THEN lateness(customer) ELSE 0

RECURSIVE SumDelay(_, _)
SumDelay(s, served) ==
    IF served = <<>> THEN 0 ELSE delay(s.customers[Head(served)]) + SumDelay(s, Tail(served))

\* MealDeliveryMDP.mean_delay (served_requests not empty), in whole minutes: the floor of
\* sum / len / 60
mean_delay(s) == (SumDelay(s, s.served_requests) \div Len(s.served_requests)) \div 60

\* MealDeliveryMDP.done
done(s) ==
    \A k \in 1..Len(s.unknown_requests \o s.known_requests \o s.served_requests) :
        s.customers[(s.unknown_requests \o s.known_requests \o s.served_requests)[k]].status = 1

\* _init_restaurants, lines 326-329: the restaurant_iterator it can get (the whole range,
\* or the first n entries of a random permutation); none when it raises
RestaurantSamples(n) ==
    IF n = AllLocations THEN {[k \in 1..AllLocations |-> k - 1]}
    ELSE IF n < AllLocations
    THEN {q \in [1..n -> 0..(AllLocations - 1)] :
             \A j, k \in 1..n : j # k => q[j] # q[k]}
    ELSE {}

\* _init_restaurants, lines 332-335: the restaurants built along restaurant_iterator from
\* the location list; the lookup of a missing entry raises IndexError and ends the loop
BuildRestaurants(iterator, location_list) ==
    LET bad == {k \in 1..Len(iterator) : iterator[k] >= Len(location_list)}
        stop == IF bad = {} THEN Len(iterator) + 1
                ELSE CHOOSE k \in bad : \A j \in bad : k <= j
    IN [restaurants |-> [i \in {iterator[k] : k \in 1..(stop - 1)} |->
                            Restaurant(i, location_list[i + 1])],
        err |-> IF bad = {} THEN "none" ELSE "IndexError"]

\* MealDeliveryMDP._init_restaurants: the outcomes it can have with n restaurants
\* configured and the location list of the instance
_init_restaurants(n, location_list) ==
    IF n > AllLocations THEN {[restaurants |-> <<>>, err |-> "Warning"]}
    ELSE {BuildRestaurants(iterator, location_list) : iterator \in RestaurantSamples(n)}

\* the last second of the day (_init_demand, line 357)
DayEnd == 86399

\* _init_demand, line 357: self.order_times, the sampled order times inside the day
FilteredOrderTimes(demand) ==
    LET F[k \in 0..Len(demand)] ==
            IF k = 0 THEN <<>>
            ELSE IF 0 <= demand[k].order_time /\ demand[k].order_time <= DayEnd
            THEN Append(F[k - 1], demand[k].order_time)
            ELSE F[k - 1]
    IN F[Len(demand)]

\* _init_demand, lines 360-368: a day's demand is a list of [order_time, location,
\* restaurant], sorted by order time (np.sort); customer i is built from entry i of the
\* sorted sample, not of self.order_times
CustomersOf(demand) ==
    [i \in 0..(Len(demand) - 1) |->
        Customer(i, demand[i + 1].location, demand[i + 1].order_time,
                 demand[i + 1].order_time + service_promise * 60,
                 <<demand[i + 1].restaurant>>)]

----------------------------------------------------------------------------
(* The engine driven as main.py drives it: reset, then step after step.  step is split at
   line 257 into its two halves, Integrate (the action is applied) and Advance (time moves
   and restaurants and vehicles are updated); Advance is the only action that can follow
   Integrate. *)

\* bounds of the engine model
MaxCustomers == 1
MaxDays == 1
MaxRoute == 2
MaxStops == 3
Horizon == 1800
Defer == 500
OrderTimes == {-60, 1000, 1100, 86400}
RelocationNodes == {1}

\* bounds of the route model: the same engine on one fixed day of two customers, with a
\* policy that may send the vehicle to a customer whether or not it carries the order
RouteMaxRoute == 2
RouteMaxStops == 2
RouteHorizon == 1200
RouteDay == <<[order_time |-> 1000, location |-> 1, restaurant |-> 0],
              [order_time |-> 1100, location |-> 1, restaurant |-> 0]>>

\* bounds of the reset model: reset alone, on instances with one to three restaurant
\* locations and one to MaxConfigured restaurants configured
MaxConfigured == 3
ResetCustomers == 2
LocationLists == {<<2>>, <<2, 3>>, <<2, 3, 4>>}

\* bounds of the orders model: the engine after reset with one customer who orders from
\* two restaurants, long enough for two rounds of pickup and delivery and for a delivery
\* after the promised time
OrdersMaxRoute == 2
OrdersMaxStops == 4
OrdersHorizon == 3600
OrdersDay == <<[order_time |-> 1000, location |-> 1, restaurant_choice |-> <<0, 1>>]>>

\* bounds of the simple model: main.py's loop with SimpleAssignmentPolicy, on days of up
\* to SimpleCustomers customers, with all or a subsample of the restaurants configured
SimpleCustomers == 2
SimpleHorizon == 4000
SimpleDays == 2
SimpleOrderTimes == {-60, 1000, 1100}

\* bounds of the synchronization model: the engine on the day of the route model, with
\* orders inserted anywhere into a queue, long enough for a vehicle to finish two
\* pickups within one step, and with a policy that may send the vehicle once more to a
\* customer who is served
SyncMaxRoute == 2
SyncMaxStops == 3
SyncHorizon == 1500

\* config.scope names the model the engine runs in; it is no key of the program's config
InRoute == config.scope = "route"
InReset == config.scope = "reset"
InFaulty == config.scope = "faulty"
InOrders == config.scope = "orders"
InSimple == config.scope = "simple"
InSync == config.scope = "sync"
RouteCap == IF InRoute \/ InFaulty THEN RouteMaxRoute
            ELSE IF InOrders THEN OrdersMaxRoute
            ELSE IF InSync THEN SyncMaxRoute ELSE MaxRoute
StopCap == IF InRoute \/ InFaulty THEN RouteMaxStops
           ELSE IF InOrders THEN OrdersMaxStops
           ELSE IF InSync THEN SyncMaxStops ELSE MaxStops
TimeCap == IF InRoute \/ InFaulty THEN RouteHorizon
           ELSE IF InOrders THEN OrdersHorizon
           ELSE IF InSync THEN SyncHorizon ELSE Horizon
DemandCap == IF InReset THEN ResetCustomers
             ELSE IF InSimple THEN SimpleCustomers ELSE MaxCustomers

Demands ==
    IF InRoute \/ InFaulty THEN {SubSeq(RouteDay, 1, n) : n \in 1..Len(RouteDay)}
    ELSE IF InSync THEN {RouteDay}
    ELSE UNION {{d \in [1..n -> [order_time : IF InSimple THEN SimpleOrderTimes ELSE OrderTimes,
                                 location : Range(locations),
                                 restaurant : 0..(config.n_restaurants - 1)]] :
                     \A k \in 1..(n - 1) : d[k].order_time <= d[k + 1].order_time}
                : n \in 0..DemandCap}

Init ==
    /\ config = [n_restaurants |-> AllLocations, scope |-> "day",
                 restaurant_location_list |-> restaurant_location_list]
    /\ day = 0
    /\ time = None
    /\ restaurants = <<>>
    /\ vehicles = <<>>
    /\ customers = <<>>
    /\ unknown_requests = <<>>
    /\ known_requests = <<>>
    /\ served_requests = <<>>
    /\ unassigned_orders = <<>>
    /\ pc = "uninit"
    /\ error = "none"
    /\ last_call = NoCall
    /\ inserted = 0
    /\ given = {}

Commit(s) ==
    /\ time' = s.time
    /\ restaurants' = s.restaurants
    /\ vehicles' = s.vehicles
    /\ customers' = s.customers
    /\ unknown_requests' = s.unknown_requests
    /\ known_requests' = s.known_requests
    /\ served_requests' = s.served_requests
    /\ unassigned_orders' = s.unassigned_orders
    /\ error' = s.err

\* the days a run goes through
DayCap == IF InSimple THEN SimpleDays ELSE MaxDays

\* a reset that keeps the customers served so far
KeepServed(built) ==
    [time |-> 0, restaurants |-> built.restaurants, vehicles |-> <<>>,
     customers |-> <<>>, unknown_requests |-> <<>>, known_requests |-> <<>>,
     served_requests |-> served_requests, unassigned_orders |-> <<>>, err |-> built.err]

\* reset, lines 300-311: everything of the day is cleared, the restaurants are built
Cleared(built) ==
    [time |-> 0, restaurants |-> built.restaurants, vehicles |-> <<>>,
     customers |-> <<>>, unknown_requests |-> <<>>, known_requests |-> <<>>,
     served_requests |-> <<>>, unassigned_orders |-> <<>>, err |-> built.err]

\* MealDeliveryMDP.reset
Reset ==
    /\ pc \in {"uninit", "idle"}
    /\ error = "none"
    /\ day < DayCap
    /\ day' = day + 1
    /\ \E built \in _init_restaurants(config.n_restaurants, config.restaurant_location_list),
          demand \in Demands :
          LET cleared == Cleared(built)
          IN IF built.err # "none" THEN Commit(cleared)
             ELSE Commit([cleared EXCEPT
                             !.vehicles = [i \in 0..(n_vehicles - 1) |->
                                              Vehicle(i, vehicle_location_list[i + 1])],
                             !.customers = CustomersOf(demand),
                             !.unknown_requests = [k \in 1..Len(demand) |-> k - 1]])
    /\ pc' = "idle"
    /\ last_call' = [op |-> "reset"]
    /\ inserted' = 0
    /\ given' = {}
    /\ UNCHANGED config

(* The actions a policy gives (spec section 6): at most one restaurant action, for an
   unassigned pair not yet given to its restaurant, and a list of at most two stops for
   one vehicle: a pickup for an unassigned pair whose order the restaurant has or gets in
   this action, a delivery to a customer whose order this vehicle carries or is to pick
   up, or a relocation; any valid insertion index, and a start_at of -1, now or later.
   In the route model orders are appended to the queue, there are no relocations, and
   a delivery may go to any known customer without a delivery stop in the route.
   In the faulty model the policy also gives what step must refuse: a pickup of any
   pair of a customer and a restaurant id, once or twice, assigned or not, a delivery to
   any customer id, and a destination that is no node, restaurant or customer; there
   every stop has start_at -1 and the expected cook and parking times are drawn.
   The orders model has the policy of the route model with start_at -1 and the expected
   cook and parking times. *)

StartAts == IF InFaulty \/ InOrders \/ InSync THEN {-1} ELSE {-1, time, time + Defer}
CookDraws == IF InFaulty \/ InOrders THEN {expected_cook_time} ELSE CookTimes
ParkDraws == IF InFaulty \/ InOrders \/ InSync THEN {expected_parking_time} ELSE ParkTimes
\* an id that names no restaurant and no customer
MissingId == AllLocations + Len(RouteDay)
Indices(len) == {-1} \cup (0..(len - 1))

Orderable == {p \in Range(unassigned_orders) : p \notin given /\ p[2] \in DOMAIN restaurants}

RestaurantActions ==
    {<<>>} \cup
    UNION {{[r \in {p[2]} |-> <<[customer_id |-> p[1], start_at |-> -1,
                                 insertion_index |-> i, cook |-> k]>>]
               : i \in IF InRoute \/ InFaulty \/ InOrders THEN {-1}
                       ELSE Indices(Len(restaurants[p[2]].queue) + 1),
                 k \in CookDraws}
           : p \in Orderable}

\* the pairs <<customer, restaurant>> a restaurant action hands to take_order
Ordered(restaurant_action) ==
    {<<restaurant_action[r][k].customer_id, r>> :
         r \in DOMAIN restaurant_action, k \in {1}}

PickupIntents(len, pick) ==
    {[destination |-> [kind |-> "r", id |-> p[2]], start_at |-> sa, insertion_index |-> i,
      orders_to_pickup |-> <<p[1]>>, orders_to_deliver |-> NoneList, park |-> pk]
        : p \in pick, sa \in StartAts, i \in Indices(len), pk \in ParkDraws}

\* faulty model: pickups of any pair, also with the customer listed twice, and stops
\* whose destination is no node, no restaurant id and no customer id: a string that
\* starts with another letter ("x"), a string that starts with "r" or "c" and names
\* nothing, and a number that is no int ("float"); and deliveries that come with a
\* list of orders to pick up
FaultyIntents(len) ==
    IF ~InFaulty THEN {}
    ELSE {[destination |-> [kind |-> "r", id |-> r], start_at |-> -1, insertion_index |-> i,
           orders_to_pickup |-> o, orders_to_deliver |-> NoneList,
           park |-> expected_parking_time]
             : r \in (DOMAIN restaurants) \cup {MissingId}, i \in Indices(len),
               o \in {<<c>> : c \in DOMAIN customers} \cup {<<c, c>> : c \in DOMAIN customers}}
         \cup
         {[destination |-> [kind |-> k, id |-> MissingId], start_at |-> -1,
           insertion_index |-> -1, orders_to_pickup |-> NoneList,
           orders_to_deliver |-> NoneList, park |-> expected_parking_time]
             : k \in {"x", "c", "float"}}
         \cup
         {[destination |-> [kind |-> "c", id |-> c], start_at |-> -1,
           insertion_index |-> -1, orders_to_pickup |-> <<c>>,
           orders_to_deliver |-> NoneList, park |-> expected_parking_time]
             : c \in Range(known_requests)}

DeliveryIntents(len, deliv) ==
    {[destination |-> [kind |-> "c", id |-> c], start_at |-> sa, insertion_index |-> i,
      orders_to_pickup |-> NoneList, orders_to_deliver |-> customers[c].restaurant_choice,
      park |-> pk]
        : c \in deliv, sa \in StartAts, i \in Indices(len), pk \in ParkDraws}

RelocationIntents(len) ==
    {[destination |-> [kind |-> "int", id |-> n], start_at |-> sa, insertion_index |-> i,
      orders_to_pickup |-> NoneList, orders_to_deliver |-> NoneList, park |-> pk]
        : n \in IF InRoute \/ InOrders \/ InSync THEN {} ELSE RelocationNodes, sa \in StartAts,
          i \in Indices(len), pk \in ParkDraws}

Intents(len, n, pick, deliv) ==
    IF len >= RouteCap \/ n >= StopCap THEN {}
    ELSE PickupIntents(len, pick) \cup DeliveryIntents(len, deliv) \cup RelocationIntents(len)
         \cup FaultyIntents(len)

\* the customers whose order vehicle v carries or is to pick up, without a delivery stop yet
Deliverable(v) ==
    LET route == vehicles[v].sequence_of_stops
        backpack == vehicles[v].orders_in_backpack
    IN {c \in DOMAIN customers :
          /\ \/ (InRoute \/ InFaulty \/ InOrders) /\ c \in Range(known_requests)
             \/ InSync /\ c \in Range(served_requests)
             \/ \E k \in 1..Len(route) :
                   route[k].type = "pickup" /\ c \in Range(route[k].orders_to_pickup)
             \/ \E k \in 1..Len(backpack) : backpack[k][2] = c
          /\ ~\E k \in 1..Len(route) : route[k].type = "delivery" /\ route[k].customer_id = c}

PickedBy(a) == IF a.destination.kind = "r" THEN {<<a.orders_to_pickup[1], a.destination.id>>}
               ELSE {}
AfterDeliv(deliv, a) ==
    IF a.destination.kind = "r" THEN deliv \cup {a.orders_to_pickup[1]}
    ELSE IF a.destination.kind = "c" THEN deliv \ {a.destination.id}
    ELSE deliv

VehicleActionLists(v, pick) ==
    LET len == Len(vehicles[v].sequence_of_stops)
        deliv == Deliverable(v)
        first == Intents(len, inserted, pick, deliv)
    IN {<<>>} \cup {<<a>> : a \in first}
       \cup UNION {{<<a, b>> : b \in Intents(len + 1, inserted + 1, pick \ PickedBy(a),
                                              AfterDeliv(deliv, a))}
                   : a \in first}

VehicleActions(restaurant_action) ==
    LET pick == {p \in Range(unassigned_orders) : p \in given \cup Ordered(restaurant_action)}
    IN {<<>>} \cup UNION {{[w \in {v} |-> l] : l \in VehicleActionLists(v, pick)}
                          : v \in DOMAIN vehicles}

\* the first half of step(action)
Integrate ==
    /\ pc = "idle"
    /\ error = "none"
    /\ time < TimeCap
    /\ \E restaurant_action \in RestaurantActions :
          \E vehicle_action \in VehicleActions(restaurant_action) :
             LET action == [restaurant_action |-> restaurant_action,
                            vehicle_action |-> vehicle_action]
             IN /\ Commit(StepIntegrate(Engine, action))
                /\ last_call' = [op |-> "integrate", action |-> action]
                /\ given' = given \cup Ordered(restaurant_action)
                /\ inserted' = inserted + IF vehicle_action = <<>> THEN 0
                                          ELSE Len(vehicle_action[CHOOSE v \in DOMAIN vehicle_action : TRUE])
    /\ pc' = "integrated"
    /\ UNCHANGED <<config, day>>

\* the second half of step(action)
Advance ==
    /\ pc = "integrated"
    /\ error = "none"
    /\ Commit(StepAdvance(Engine))
    /\ last_call' = [op |-> "advance"]
    /\ pc' = "idle"
    /\ UNCHANGED <<config, day, inserted, given>>

Next == Reset \/ Integrate \/ Advance

Spec == Init /\ [][Next]_vars

RouteInit ==
    /\ config = [n_restaurants |-> AllLocations, scope |-> "route",
                 restaurant_location_list |-> restaurant_location_list]
    /\ day = 0
    /\ time = None
    /\ restaurants = <<>>
    /\ vehicles = <<>>
    /\ customers = <<>>
    /\ unknown_requests = <<>>
    /\ known_requests = <<>>
    /\ served_requests = <<>>
    /\ unassigned_orders = <<>>
    /\ pc = "uninit"
    /\ error = "none"
    /\ last_call = NoCall
    /\ inserted = 0
    /\ given = {}

SpecRoute == RouteInit /\ [][Next]_vars

SyncInit ==
    /\ config = [n_restaurants |-> AllLocations, scope |-> "sync",
                 restaurant_location_list |-> restaurant_location_list]
    /\ day = 0
    /\ time = None
    /\ restaurants = <<>>
    /\ vehicles = <<>>
    /\ customers = <<>>
    /\ unknown_requests = <<>>
    /\ known_requests = <<>>
    /\ served_requests = <<>>
    /\ unassigned_orders = <<>>
    /\ pc = "uninit"
    /\ error = "none"
    /\ last_call = NoCall
    /\ inserted = 0
    /\ given = {}

SpecSync == SyncInit /\ [][Next]_vars

ResetInit ==
    /\ config \in {[n_restaurants |-> n, scope |-> "reset", restaurant_location_list |-> l]
                     : n \in 1..MaxConfigured, l \in LocationLists}
    /\ day = 0
    /\ time = None
    /\ restaurants = <<>>
    /\ vehicles = <<>>
    /\ customers = <<>>
    /\ unknown_requests = <<>>
    /\ known_requests = <<>>
    /\ served_requests = <<>>
    /\ unassigned_orders = <<>>
    /\ pc = "uninit"
    /\ error = "none"
    /\ last_call = NoCall
    /\ inserted = 0
    /\ given = {}

SpecReset == ResetInit /\ [][Reset]_vars

FaultyInit ==
    /\ config = [n_restaurants |-> AllLocations, scope |-> "faulty",
                 restaurant_location_list |-> restaurant_location_list]
    /\ day = 0
    /\ time = None
    /\ restaurants = <<>>
    /\ vehicles = <<>>
    /\ customers = <<>>
    /\ unknown_requests = <<>>
    /\ known_requests = <<>>
    /\ served_requests = <<>>
    /\ unassigned_orders = <<>>
    /\ pc = "uninit"
    /\ error = "none"
    /\ last_call = NoCall
    /\ inserted = 0
    /\ given = {}

SpecFaulty == FaultyInit /\ [][Next]_vars

\* the engine as reset leaves it, with the customers of OrdersDay in place of a sample of
\* _init_demand (which gives every customer one restaurant)
OrdersInit ==
    /\ config = [n_restaurants |-> AllLocations, scope |-> "orders",
                 restaurant_location_list |-> restaurant_location_list]
    /\ day = MaxDays
    /\ time = 0
    /\ restaurants \in {built.restaurants :
                            built \in _init_restaurants(AllLocations, restaurant_location_list)}
    /\ vehicles = [i \in 0..(n_vehicles - 1) |-> Vehicle(i, vehicle_location_list[i + 1])]
    /\ customers = [i \in 0..(Len(OrdersDay) - 1) |->
                       Customer(i, OrdersDay[i + 1].location, OrdersDay[i + 1].order_time,
                                OrdersDay[i + 1].order_time + service_promise * 60,
                                OrdersDay[i + 1].restaurant_choice)]
    /\ unknown_requests = [k \in 1..Len(OrdersDay) |-> k - 1]
    /\ known_requests = <<>>
    /\ served_requests = <<>>
    /\ unassigned_orders = <<>>
    /\ pc = "idle"
    /\ error = "none"
    /\ last_call = [op |-> "reset"]
    /\ inserted = 0
    /\ given = {}

OrdersNext == Integrate \/ Advance

SpecOrders == OrdersInit /\ [][OrdersNext]_vars

----------------------------------------------------------------------------
(* The engine driven by main.py with SimpleAssignmentPolicy: reset, then act and step
   until step returns done. *)

\* act, lines 24-25: the first vehicle in the order of busy_time (sorted is stable)
LeastBusy ==
    CHOOSE v \in DOMAIN vehicles :
       \A w \in DOMAIN vehicles :
          \/ estimated_busy_time(vehicles[v], time) < estimated_busy_time(vehicles[w], time)
          \/ /\ estimated_busy_time(vehicles[v], time) = estimated_busy_time(vehicles[w], time)
             /\ v <= w

\* the j-th smallest element of a set of numbers
NthIn(S, j) == CHOOSE k \in S : Cardinality({i \in S : i < k}) = j - 1

\* SimpleAssignmentPolicy.act: for every unassigned pair a restaurant action that appends
\* the order and, for the least busy vehicle, a pickup and a delivery stop that are
\* appended; draws[k] holds the cook and parking times step samples for pair k
SimpleAction(draws) ==
    LET u == unassigned_orders
        At(r) == {k \in 1..Len(u) : u[k][2] = r}
        pickup(k) == [destination |-> [kind |-> "r", id |-> u[k][2]], start_at |-> -1,
                      insertion_index |-> -1, orders_to_pickup |-> <<u[k][1]>>,
                      orders_to_deliver |-> NoneList, park |-> draws[k][2]]
        delivery(k) == [destination |-> [kind |-> "c", id |-> u[k][1]], start_at |-> -1,
                        insertion_index |-> -1, orders_to_pickup |-> NoneList,
                        orders_to_deliver |-> <<u[k][2]>>, park |-> draws[k][3]]
    IN [restaurant_action |->
           [r \in {u[k][2] : k \in 1..Len(u)} |->
               [j \in 1..Cardinality(At(r)) |->
                   [customer_id |-> u[NthIn(At(r), j)][1], start_at |-> -1,
                    insertion_index |-> -1, cook |-> draws[NthIn(At(r), j)][1]]]],
        vehicle_action |->
           IF u = <<>> THEN <<>>
           ELSE [w \in {LeastBusy} |->
                    [j \in 1..(2 * Len(u)) |->
                        IF j % 2 = 1 THEN pickup((j + 1) \div 2) ELSE delivery(j \div 2)]]]

SimpleActions ==
    {SimpleAction(draws) :
        draws \in [1..Len(unassigned_orders) -> CookTimes \X ParkTimes \X ParkTimes]}

\* main.py, lines 16-17: act and the first half of step, while the day is not done
IntegrateSimple ==
    /\ pc = "idle"
    /\ error = "none"
    /\ time < SimpleHorizon
    /\ last_call.op = "reset" \/ ~done(Engine)
    /\ \E action \in SimpleActions :
          /\ Commit(StepIntegrate(Engine, action))
          /\ last_call' = [op |-> "integrate", action |-> action]
          /\ inserted' = inserted + 2 * Len(unassigned_orders)
    /\ given' = given \cup {q \in Range(unassigned_orders) : q[2] \in DOMAIN restaurants}
    /\ pc' = "integrated"
    /\ UNCHANGED <<config, day>>

SimpleInit ==
    /\ config \in {[n_restaurants |-> n, scope |-> "simple",
                     restaurant_location_list |-> restaurant_location_list]
                       : n \in 1..AllLocations}
    /\ day = 0
    /\ time = None
    /\ restaurants = <<>>
    /\ vehicles = <<>>
    /\ customers = <<>>
    /\ unknown_requests = <<>>
    /\ known_requests = <<>>
    /\ served_requests = <<>>
    /\ unassigned_orders = <<>>
    /\ pc = "uninit"
    /\ error = "none"
    /\ last_call = NoCall
    /\ inserted = 0
    /\ given = {}

SimpleNext == Reset \/ IntegrateSimple \/ Advance

\* main.py, lines 15-20: the loop goes on from one half of step to the next; Proceed is
\* what IntegrateSimple and Advance do to pc, under their guards
Proceed ==
    \/ /\ pc = "idle"
       /\ error = "none"
       /\ time < SimpleHorizon
       /\ last_call.op = "reset" \/ ~done(Engine)
       /\ pc' = "integrated"
    \/ /\ pc = "integrated"
       /\ error = "none"
       /\ pc' = "idle"

\* the loop of main.py never stops between reset and done: a step that can be taken is
\* taken
SpecSimple == SimpleInit /\ [][SimpleNext]_vars /\ WF_pc(Proceed)

----------------------------------------------------------------------------
(* A restaurant driven directly: take_order and update calls at non-decreasing times *)

\* bounds of the restaurant harness
MaxOrders == 3
HarnessStart == 1000
MaxTicks == 3
TickStep == 300
EstimatedDurations == {200, 300}
ActualDurations == {0, 200, 300}

RestaurantInit ==
    /\ config = [n_restaurants |-> 1, scope |-> "harness",
                 restaurant_location_list |-> restaurant_location_list]
    /\ day = 0
    /\ time = HarnessStart
    /\ restaurants = [i \in {0} |-> Restaurant(0, 1)]
    /\ vehicles = <<>>
    /\ customers = <<>>
    /\ unknown_requests = <<>>
    /\ known_requests = <<>>
    /\ served_requests = <<>>
    /\ unassigned_orders = <<>>
    /\ pc = "harness"
    /\ error = "none"
    /\ last_call = NoCall
    /\ inserted = 0
    /\ given = {}

HarnessFrame == UNCHANGED <<config, day, inserted, vehicles, customers, unknown_requests, known_requests,
                            served_requests, unassigned_orders, pc>>

\* restaurant.take_order(insertion_index, Order(c, -1, e, a), time) with a new customer c
CallTakeOrder ==
    /\ error = "none"
    /\ Len(restaurants[0].queue) + Len(restaurants[0].prepared_orders) < MaxOrders
    /\ \E insertion_index \in {-1} \cup (0..Len(restaurants[0].queue)),
          e \in EstimatedDurations, a \in ActualDurations :
          LET c == Len(restaurants[0].queue) + Len(restaurants[0].prepared_orders)
              order == Order(c, -1, e, a)
              res == take_order(restaurants[0], insertion_index, order, time)
          IN /\ restaurants' = [restaurants EXCEPT ![0] = res.r]
             /\ error' = res.err
             /\ given' = given \cup {<<c, 0>>}
             /\ last_call' = [op |-> "take_order", insertion_index |-> insertion_index,
                              order |-> order, before |-> restaurants[0]]
    /\ UNCHANGED time
    /\ HarnessFrame

\* restaurant.update(time)
CallUpdate ==
    /\ error = "none"
    /\ last_call.op # "update"
    /\ LET res == update(restaurants[0], time)
       IN /\ restaurants' = [restaurants EXCEPT ![0] = res.r]
          /\ error' = res.err
    /\ last_call' = [op |-> "update", before |-> restaurants[0]]
    /\ UNCHANGED <<time, given>>
    /\ HarnessFrame

\* the caller's clock moves on
Tick ==
    /\ error = "none"
    /\ time < HarnessStart + MaxTicks * TickStep
    /\ time' = time + TickStep
    /\ last_call' = [op |-> "tick"]
    /\ UNCHANGED <<restaurants, error, given>>
    /\ HarnessFrame

RestaurantNext == CallTakeOrder \/ CallUpdate \/ Tick

SpecRestaurant == RestaurantInit /\ [][RestaurantNext]_vars

----------------------------------------------------------------------------
(* Two runs of one restaurant side by side: restaurants[0] and restaurants[1] get the
   same take_order calls at the same times, with orders that differ in nothing but
   their actual preparation time *)

\* bound of the two-run model
TwinOrders == 2

TwinInit ==
    /\ config = [n_restaurants |-> 1, scope |-> "twin",
                 restaurant_location_list |-> restaurant_location_list]
    /\ day = 0
    /\ time = HarnessStart
    /\ restaurants = [i \in {0, 1} |-> Restaurant(0, 1)]
    /\ vehicles = <<>>
    /\ customers = <<>>
    /\ unknown_requests = <<>>
    /\ known_requests = <<>>
    /\ served_requests = <<>>
    /\ unassigned_orders = <<>>
    /\ pc = "twin"
    /\ error = "none"
    /\ last_call = NoCall
    /\ inserted = 0
    /\ given = {}

\* restaurant.take_order(insertion_index, Order(c, -1, e, a), time) in both runs, with
\* actual preparation time a[0] in the one and a[1] in the other
TwinTakeOrder ==
    /\ error = "none"
    /\ Len(restaurants[0].queue) < TwinOrders
    /\ \E insertion_index \in {-1} \cup (0..Len(restaurants[0].queue)),
          e \in EstimatedDurations, a \in [{0, 1} -> ActualDurations] :
          LET c == Len(restaurants[0].queue)
              res == [i \in {0, 1} |->
                         take_order(restaurants[i], insertion_index, Order(c, -1, e, a[i]),
                                    time)]
          IN /\ restaurants' = [i \in {0, 1} |-> res[i].r]
             /\ error' = IF res[0].err # "none" THEN res[0].err ELSE res[1].err
             /\ last_call' = [op |-> "take_order", insertion_index |-> insertion_index]
    /\ UNCHANGED <<time, given>>
    /\ HarnessFrame

TwinNext == TwinTakeOrder \/ Tick

SpecTwin == TwinInit /\ [][TwinNext]_vars

\* C19: two runs with the same take_order calls that differ only in the orders' actual
\* preparation times report the same estimated ready times (estimated_finish_times).
C19_EstimatesHideGroundTruth ==
    (pc = "twin" /\ error = "none") =>
        restaurants[0].estimated_time_queue = restaurants[1].estimated_time_queue

----------------------------------------------------------------------------
(* Claims about the restaurant queue *)

NonDecreasing(s) == \A k \in 1..(Len(s) - 1) : s[k] <= s[k + 1]

Aligned(r) == Len(r.time_queue) = Len(r.queue) /\ Len(r.estimated_time_queue) = Len(r.queue)

\* C2: after any sequence of take_order calls both the estimated and the ground-truth
\* ready-time series of a restaurant are non-decreasing in queue order.
C2_QueueMonotone ==
    error = "none" =>
    /\ NonDecreasing(restaurants[0].estimated_time_queue)
    /\ NonDecreasing(restaurants[0].time_queue)

\* The ready time the claim gives the order at 0-based position p of the queue
ExpectedReady(series, p, t, duration) ==
    IF p = 0 THEN t + duration ELSE PyGet(series, p - 1) + duration

\* C3: take_order returns normally and the inserted order is ready at current_time +
\* duration when it is first in the queue and at its predecessor's ready time + duration
\* otherwise, in the estimated series (estimated duration) and in the ground-truth
\* series (actual duration).
C3_InsertedReadyTime ==
    last_call.op = "take_order" =>
        LET r == restaurants[0]
            o == last_call.order
            p == PyIndexOf(r.queue, o)
        IN /\ error = "none"
           /\ PyInRange(r.estimated_time_queue, p) /\ PyInRange(r.time_queue, p)
           /\ PyGet(r.estimated_time_queue, p) =
                  ExpectedReady(r.estimated_time_queue, p, time, o.estimated_preparation_time)
           /\ PyGet(r.time_queue, p) =
                  ExpectedReady(r.time_queue, p, time, o.actual_preparation_time)

\* C4: an insertion before the end of a non-empty queue returns normally, raises the
\* estimated ready time of every later order by the inserted estimated duration and its
\* ground-truth ready time by the inserted actual duration, and leaves the ready times
\* of the orders before the insertion point as they were.
C4_CascadingRepair ==
    (/\ last_call.op = "take_order"
     /\ last_call.insertion_index # -1
     /\ last_call.insertion_index < Len(last_call.before.queue)
     /\ Aligned(last_call.before)) =>
        LET r == restaurants[0]
            b == last_call.before
            o == last_call.order
            i == last_call.insertion_index
        IN /\ error = "none"
           /\ Aligned(r)
           /\ \A j \in 0..(Len(b.queue) - 1) :
                 IF j < i
                 THEN /\ PyGet(r.estimated_time_queue, j) = PyGet(b.estimated_time_queue, j)
                      /\ PyGet(r.time_queue, j) = PyGet(b.time_queue, j)
                 ELSE /\ PyGet(r.estimated_time_queue, j + 1) =
                            PyGet(b.estimated_time_queue, j) + o.estimated_preparation_time
                      /\ PyGet(r.time_queue, j + 1) =
                            PyGet(b.time_queue, j) + o.actual_preparation_time

\* the positions (1-based) of the orders of r that are ready by t, and the others
ReadyAt(r, t) == {k \in 1..Len(r.queue) : r.time_queue[k] <= t}
Keep(s, ks) == LET F[k \in 0..Len(s)] ==
                       IF k = 0 THEN <<>>
                       ELSE IF k \in ks THEN Append(F[k - 1], s[k]) ELSE F[k - 1]
               IN F[Len(s)]

\* C5: update(t) moves exactly the orders whose ground-truth ready time is <= t into the
\* prepared list, in queue order, and drops their entries of both series; the orders
\* left keep their order and their ready times.  (Stated for a queue whose series have
\* one entry per order.)
C5_UpdateMovesReady ==
    (last_call.op = "update" /\ Aligned(last_call.before)) =>
        LET r == restaurants[0]
            b == last_call.before
            ready == ReadyAt(b, time)
            rest == (1..Len(b.queue)) \ ready
        IN /\ error = "none"
           /\ \A k \in 1..Len(r.time_queue) : r.time_queue[k] > time
           /\ r.prepared_orders = b.prepared_orders \o Keep(b.queue, ready)
           /\ r.queue = Keep(b.queue, rest)
           /\ r.time_queue = Keep(b.time_queue, rest)
           /\ r.estimated_time_queue = Keep(b.estimated_time_queue, rest)

SetMax(S) == CHOOSE m \in S : \A x \in S : x <= m

\* the value the claim gives waiting_time on a series: max(0, M - t), M the largest
\* ready time of the queued orders named
ClaimedWait(r, series, orders, t) ==
    LET pos == {k \in 1..Len(r.queue) : r.queue[k].customer_id \in orders}
    IN IF pos = {} THEN 0 ELSE Max2(0, SetMax({series[k] : k \in pos}) - t)

\* C6: for every set of customer ids, get_actual_waiting_time and
\* get_estimated_waiting_time return max(0, M - t), M the maximum ready time of the
\* chosen series over the queued orders named, and 0 when there is none.
C6_WaitingTime ==
    LET r == restaurants[0]
    IN error = "none" => \A orders \in SUBSET (0..(MaxOrders - 1)) :
          LET pos == {k \in 1..Len(r.queue) : r.queue[k].customer_id \in orders}
              act == get_actual_waiting_time(r, orders, time)
              est == get_estimated_waiting_time(r, orders, time)
          IN /\ act.err = "none" /\ est.err = "none"
             /\ \A k \in pos : k <= Len(r.time_queue) /\ k <= Len(r.estimated_time_queue)
             /\ act.val = ClaimedWait(r, r.time_queue, orders, time)
             /\ est.val = ClaimedWait(r, r.estimated_time_queue, orders, time)

----------------------------------------------------------------------------
(* Vehicle routes *)

\* the stops of a route that were alone in it when step inserted them, with an
\* earliest start of -1 or not after the time of the insertion
StartedOnInsert(stop) ==
    /\ stop.sole_on_insert
    /\ stop.requested_start_at <= stop.inserted_at

\* a delivery stop at the head of vehicle v's route, started on insertion, whose actual
\* park time is the estimated one
SoleDelivery(v) ==
    /\ vehicles[v].sequence_of_stops # <<>>
    /\ LET stop == vehicles[v].sequence_of_stops[1]
       IN /\ stop.type = "delivery"
          /\ StartedOnInsert(stop)
          /\ stop.actual_park_time = stop.estimated_park_time

C8_StartedAtInsertion ==
    error = "none" =>
        \A v \in DOMAIN vehicles : \A k \in 1..Len(vehicles[v].sequence_of_stops) :
            LET stop == vehicles[v].sequence_of_stops[k]
            IN StartedOnInsert(stop) => stop.started_at = stop.inserted_at

C8_RemovedWhenDue ==
    (pc = "integrated" /\ pc' = "idle" /\ error' = "none") =>
        \A v \in DOMAIN vehicles :
            SoleDelivery(v) =>
                LET stop == vehicles[v].sequence_of_stops[1]
                    due == stop.inserted_at + stop.actual_travel_time + stop.actual_park_time
                IN IF time' < due
                   THEN /\ vehicles'[v].sequence_of_stops # <<>>
                        /\ vehicles'[v].sequence_of_stops[1] = stop
                   ELSE /\ Len(vehicles'[v].sequence_of_stops)
                              < Len(vehicles[v].sequence_of_stops)
                        /\ \A k \in 1..Len(vehicles'[v].sequence_of_stops) :
                              vehicles'[v].sequence_of_stops[k] # stop

\* C8: a stop that step inserts into an empty route at time T with an earliest start of
\* -1 or <= T has started_at = T; such a delivery stop whose actual park time is the
\* estimated one is still the head of the route after an advance to a time before
\* T + travel + park, and is gone from the route after an advance to that time or later
\* (T = 1000, travel 100, park 20: kept before 1120, removed from 1120 on).
C8_SoleStopStartsAndCompletes == []C8_StartedAtInsertion /\ [][C8_RemovedWhenDue]_vars

\* the stop of the scenario is still in the route at 1100
C8_Witness ==
    /\ pc = "idle" /\ error = "none" /\ last_call.op = "advance" /\ time = 1100
    /\ \E v \in DOMAIN vehicles :
          /\ SoleDelivery(v)
          /\ LET stop == vehicles[v].sequence_of_stops[1]
             IN /\ stop.inserted_at = 1000 /\ stop.started_at = 1000
                /\ stop.requested_start_at = -1
                /\ stop.actual_travel_time = 100 /\ stop.actual_park_time = 20

\* the fields of a stop that _repair_vehicle_route writes
Repaired(stop) ==
    <<stop.start_at, stop.estimated_travel_time, stop.actual_travel_time,
      stop.estimated_wait_time, stop.actual_wait_time>>

\* the vehicles whose route the last step repaired (lines 255-257)
JustRepaired ==
    {v \in DOMAIN vehicles : /\ v \in DOMAIN last_call.action.vehicle_action
                             /\ vehicles[v].sequence_of_stops # <<>>}

\* C10: right after step has repaired a vehicle's non-empty route, a second call of
\* _repair_vehicle_route at the same time and with the same restaurants returns normally
\* and leaves start_at, the estimated and actual travel time and the estimated and
\* actual wait time of every stop as they are.
C10_RepairIdempotent ==
    (pc = "integrated" /\ error = "none") =>
        \A v \in JustRepaired :
            LET route == vehicles[v].sequence_of_stops
                again == _repair_vehicle_route(route, restaurants, time)
            IN /\ again.err = "none"
               /\ Len(again.route) = Len(route)
               /\ \A k \in 1..Len(route) : Repaired(again.route[k]) = Repaired(route[k])

\* a repaired route of two stops, with a pickup that waits and a stop whose start_at
\* the repair has moved
C10_Witness ==
    /\ pc = "integrated" /\ error = "none"
    /\ \E v \in JustRepaired :
          LET route == vehicles[v].sequence_of_stops
          IN /\ Len(route) >= 2
             /\ \E k \in 1..Len(route) :
                   route[k].type = "pickup" /\ route[k].estimated_wait_time > 0
                   /\ route[k].actual_wait_time > 0
             /\ \E k \in 1..Len(route) :
                   route[k].requested_start_at # -1
                   /\ route[k].start_at # route[k].requested_start_at

\* the ground-truth duration of a stop: actual travel, park and wait
GroundTruthTotal(stop) ==
    stop.actual_travel_time + stop.actual_park_time + stop.actual_wait_time

C7_Advance ==
    (pc = "integrated" /\ pc' = "idle" /\ error' = "none") =>
        \A v \in DOMAIN vehicles :
            LET before == UpdateRestaurants(RevealOrForward(Engine), 0).vehicles[v]
                res == VehicleUpdate(before, time')
                left == res.v.sequence_of_stops
            IN /\ \A k \in 1..Len(res.popped) :
                     res.popped[k].started_at + GroundTruthTotal(res.popped[k]) <= time'
               /\ left # <<>> => left[1].started_at + GroundTruthTotal(left[1]) > time'

\* C7: Vehicle.update(t) removes the stops at the head of the route whose started_at +
\* actual travel + actual park + actual wait is <= t and no other: every stop it removes
\* has that sum <= t, and the stop it leaves at the head has it > t.
C7_PopsOnGroundTruth == [][C7_Advance]_vars

\* C9: a stop inserted with an earliest start s other than -1 never has a started_at
\* before s, whether started_at was set at the insertion or by Vehicle.update.
C9_NoEarlyStart ==
    error = "none" =>
        \A v \in DOMAIN vehicles : \A k \in 1..Len(vehicles[v].sequence_of_stops) :
            LET stop == vehicles[v].sequence_of_stops[k]
            IN (stop.started_at # None /\ stop.requested_start_at # -1) =>
                   stop.started_at >= stop.requested_start_at

----------------------------------------------------------------------------
(* Orders *)

InQueue(c, r) ==
    r \in DOMAIN restaurants
    /\ \E k \in 1..Len(restaurants[r].queue) : restaurants[r].queue[k].customer_id = c

InPrepared(c, r) ==
    r \in DOMAIN restaurants
    /\ \E k \in 1..Len(restaurants[r].prepared_orders) :
          restaurants[r].prepared_orders[k].customer_id = c

InBackpack(c, r) ==
    \E v \in DOMAIN vehicles : <<r, c>> \in Range(vehicles[v].orders_in_backpack)

IsDelivered(c, r) ==
    c \in DOMAIN customers /\ r \in DOMAIN customers[c].delivery_time
    /\ customers[c].delivery_time[r] # None

\* the number of the four places that hold the order of customer c at restaurant r
Places(c, r) ==
    Cardinality({x \in {"queue", "prepared", "backpack", "delivered"} :
                    \/ x = "queue" /\ InQueue(c, r)
                    \/ x = "prepared" /\ InPrepared(c, r)
                    \/ x = "backpack" /\ InBackpack(c, r)
                    \/ x = "delivered" /\ IsDelivered(c, r)})

\* C1: between two step calls, every order given to a restaurant is in exactly one of
\* the restaurant's queue, its prepared list, a vehicle's backpack and the customer's
\* delivery-time record.
C1_OrderConservation ==
    (pc = "idle" /\ error = "none") => \A p \in given : Places(p[1], p[2]) = 1

----------------------------------------------------------------------------
(* reset and the course of time *)

\* C17: reset raises the configuration error (Warning) when more restaurants are
\* configured than the instance has restaurant locations, and otherwise returns normally
\* with exactly the configured number of restaurants.
C17_ResetRestaurants ==
    last_call.op = "reset" =>
        IF config.n_restaurants > Len(config.restaurant_location_list)
        THEN error = "Warning"
        ELSE error = "none" /\ Cardinality(DOMAIN restaurants) = config.n_restaurants

\* C20: after reset every customer, in the customers mapping and in the unrevealed
\* collection, has an order time in [0, 86399], and the unrevealed collection is sorted
\* by non-decreasing order time.
C20_DemandInsideDay ==
    (last_call.op = "reset" /\ error = "none") =>
        /\ \A c \in DOMAIN customers :
              0 <= customers[c].order_time /\ customers[c].order_time <= DayEnd
        /\ \A k \in 1..Len(unknown_requests) :
              /\ unknown_requests[k] \in DOMAIN customers
              /\ k > 1 => customers[unknown_requests[k - 1]].order_time
                             <= customers[unknown_requests[k]].order_time
        /\ Len(unknown_requests) = Cardinality(DOMAIN customers)

C18_Step ==
    (pc \in {"idle", "integrated"} /\ day' = day /\ error' = "none") => time' >= time

\* C18: from reset on, the current time after a step is never before the current time
\* before it.
C18_TimeForward == [][C18_Step]_vars

----------------------------------------------------------------------------
(* actions that step must refuse *)

\* how often customer c is named by the pickup stops at restaurant r among the first k
\* stops of a vehicle's action list
NamedUpTo(v_actions, k, c, r) ==
    Cardinality({<<j, i>> \in (1..k) \X (1..2) :
                    /\ v_actions[j].destination = [kind |-> "r", id |-> r]
                    /\ i \in DOMAIN v_actions[j].orders_to_pickup
                    /\ v_actions[j].orders_to_pickup[i] = c})

InList(list, x) == Cardinality({i \in DOMAIN list : list[i] = x})

\* stop k of the list is a pickup that names a pair the unassigned-orders list does not
\* hold when the stop is reached
UnassignablePickup(v_actions, k, unassigned) ==
    /\ v_actions[k].destination.kind = "r"
    /\ \E i \in DOMAIN v_actions[k].orders_to_pickup :
          LET c == v_actions[k].orders_to_pickup[i]
              r == v_actions[k].destination.id
          IN NamedUpTo(v_actions, k, c, r) > InList(unassigned, <<c, r>>)

C14_Step ==
    (pc = "idle" /\ pc' = "integrated") =>
        \A v \in DOMAIN last_call'.action.vehicle_action :
           LET v_actions == last_call'.action.vehicle_action[v]
           IN \A k \in DOMAIN v_actions :
                 UnassignablePickup(v_actions, k, unassigned_orders) =>
                    /\ error' # "none"
                    /\ Len(vehicles'[v].sequence_of_stops)
                          - Len(vehicles[v].sequence_of_stops) < k

\* C14: when the action list of a vehicle of the fleet holds a pickup stop for a pair
\* of customer and restaurant that is not in the unassigned-orders list when the stop is
\* reached (already assigned, never revealed, or named twice in the action), step ends
\* with an error and that stop is not inserted into the route.
C14_UnassignablePickupRefused == [][C14_Step]_vars

\* a step refused because a pickup named its customer twice
C14_Witness ==
    /\ pc = "integrated"
    /\ error = "ValueError"
    /\ \E v \in DOMAIN last_call.action.vehicle_action :
          \E k \in DOMAIN last_call.action.vehicle_action[v] :
             LET a == last_call.action.vehicle_action[v][k]
             IN /\ Len(a.orders_to_pickup) = 2
                /\ a.destination.kind = "r"
                /\ \A j \in DOMAIN vehicles[v].sequence_of_stops :
                      vehicles[v].sequence_of_stops[j].orders_to_pickup # a.orders_to_pickup

\* the first failure of a step, when it is the removal from unassigned_orders
C15_Step ==
    (pc = "idle" /\ pc' = "integrated" /\ error' = "ValueError") =>
        UNCHANGED <<restaurants, vehicles, unassigned_orders, customers,
                    unknown_requests, known_requests, served_requests, time>>

\* C15: a step that fails with the invalid-action error (the ValueError of the removal
\* from the unassigned-orders list) leaves the restaurants, every vehicle route, the
\* unassigned-orders list, the customer collections and the time as they were before
\* the step.
C15_FailedStepChangesNothing == [][C15_Step]_vars

\* a destination that is no integer node and names no restaurant and no customer
InvalidDestination(destination) ==
    /\ destination.kind # "int"
    /\ destination.kind = "r" => destination.id \notin DOMAIN restaurants
    /\ destination.kind = "c" => destination.id \notin DOMAIN customers

C16_Step ==
    (pc = "idle" /\ pc' = "integrated") =>
        \A v \in DOMAIN last_call'.action.vehicle_action :
           LET v_actions == last_call'.action.vehicle_action[v]
           IN (/\ v_actions # <<>>
               /\ InvalidDestination(v_actions[1].destination)
               /\ IntegrateRestaurants(Engine, last_call'.action.restaurant_action, 0).err
                     = "none")
                 => /\ error' = "Warning"
                    /\ vehicles'[v].sequence_of_stops = vehicles[v].sequence_of_stops

\* C16: when the first stop of a vehicle's action list has a destination that is no
\* integer node, no id of an existing restaurant and no id of an existing customer, step
\* ends with the invalid-destination error (the Warning of
\* _construct_stop_from_vehicle_action) and the vehicle's route is as before.
C16_InvalidDestinationRefused == [][C16_Step]_vars

----------------------------------------------------------------------------
(* customers *)

Delivered(c) == {r \in Range(customers[c].restaurant_choice) :
                    customers[c].delivery_time[r] # None}

C13_Status ==
    \A c \in DOMAIN customers :
       /\ customers[c].status \in {-1, 0, 1}
       /\ customers[c].status = 1 =>
             Delivered(c) = Range(customers[c].restaurant_choice)
       /\ (Len(customers[c].restaurant_choice) = 2 /\ Cardinality(Delivered(c)) = 1) =>
             /\ customers[c].status = 0
             /\ c \in Range(known_requests)
             /\ c \notin Range(served_requests)

C13_Step ==
    day' = day =>
        \A c \in DOMAIN customers :
           /\ c \in DOMAIN customers'
           /\ customers'[c].status \in {customers[c].status, customers[c].status + 1}

\* C13: within a day a customer's status only stays or moves one up, from -1 to 0 and
\* from 0 to 1; a customer has status 1 only if every restaurant of its choice has a
\* delivery time; a customer with two restaurants of which one has a delivery time has
\* status 0 and is in known_requests.
C13_StatusMonotone == []C13_Status /\ [][C13_Step]_vars

\* between two steps, one of the two orders of a customer is delivered
C13_Witness ==
    /\ pc = "idle"
    /\ error = "none"
    /\ \E c \in DOMAIN customers :
          /\ Len(customers[c].restaurant_choice) = 2
          /\ Cardinality(Delivered(c)) = 1
          /\ customers[c].status = 0
          /\ c \in Range(known_requests)

\* C12: whenever a customer has been served, the delay of every served customer is at
\* least 0, and so is mean_delay.
C12_DelayNonNegative ==
    served_requests # <<>> =>
        /\ \A k \in 1..Len(served_requests) : delay(customers[served_requests[k]]) >= 0
        /\ SumDelay(Engine, served_requests) >= 0
        /\ mean_delay(Engine) >= 0

\* a customer served after the promised time, and so with a delay above 0
C12_Witness ==
    /\ pc = "idle"
    /\ served_requests # <<>>
    /\ \E k \in 1..Len(served_requests) : delay(customers[served_requests[k]]) > 0

----------------------------------------------------------------------------
(* termination *)

\* C11: under SimpleAssignmentPolicy, after every reset that returns the engine comes
\* to a state between two steps in which done is true.
C11_Termination ==
    (last_call.op = "reset" /\ error = "none") ~> (pc = "idle" /\ done(Engine))

\* the same when every location of the instance is a restaurant
TerminationWithAllRestaurants ==
    (last_call.op = "reset" /\ error = "none" /\ config.n_restaurants = AllLocations)
        ~> (pc = "idle" /\ done(Engine))

----------------------------------------------------------------------------
(* the vehicle's load signal *)

\* the busy time as described: the estimated total times of the remaining stops plus the
\* offset of the first stop's start, or of its earliest start when it has not started
ClaimedBusyTime(v, now) ==
    LET route == v.sequence_of_stops
        F[k \in 0..Len(route)] ==
            IF k = 0 THEN 0
            ELSE F[k - 1] + route[k].estimated_travel_time + route[k].estimated_park_time
                          + route[k].estimated_wait_time
    IN IF route = <<>> THEN 0
       ELSE F[Len(route)]
            + (IF route[1].started_at # None THEN route[1].started_at - now
               ELSE IF route[1].start_at # -1 /\ route[1].start_at > now
               THEN route[1].start_at - now
               ELSE 0)

\* C30: the busy time of a vehicle is 0 for an empty route and otherwise the sum of the
\* estimated total times of its stops plus the offset of the first stop's start from now:
\* started_at - now when it has started, start_at - now when it has not and start_at is
\* in the future.
C30_BusyTime ==
    error = "none" =>
        \A v \in DOMAIN vehicles :
           estimated_busy_time(vehicles[v], time) = ClaimedBusyTime(vehicles[v], time)

----------------------------------------------------------------------------
(* the vehicle's location *)

\* between two steps a vehicle with stops left is recorded at the end of its route
C28_AtRouteEnd ==
    (pc = "idle" /\ error = "none") =>
        \A v \in DOMAIN vehicles :
           vehicles[v].sequence_of_stops # <<>> =>
              vehicles[v].location
                 = vehicles[v].sequence_of_stops[Len(vehicles[v].sequence_of_stops)].destination

\* a vehicle that completes the last stop of its route is recorded at that stop
C28_Step ==
    (pc = "integrated" /\ pc' = "idle" /\ error' = "none") =>
        \A v \in DOMAIN vehicles :
           LET popped == VehicleUpdate(vehicles[v], time').popped
           IN (popped # <<>> /\ vehicles'[v].sequence_of_stops = <<>>) =>
                 vehicles'[v].location = popped[Len(popped)].destination

\* C28: after every step the location of a vehicle with a non-empty route is the
\* destination of the last stop of the route, and the location of a vehicle that has
\* just completed its route is the destination of the last completed stop.
C28_LocationFollowsRoute == []C28_AtRouteEnd /\ [][C28_Step]_vars

----------------------------------------------------------------------------
(* travel times *)

\* the place in the route, counted from 1, that a stop inserted at insertion_index takes
PlaceOf(route, insertion_index) ==
    IF insertion_index = -1 \/ insertion_index > Len(route) THEN Len(route) + 1
    ELSE insertion_index + 1

C27_Step ==
    (pc = "idle" /\ pc' = "integrated" /\ error' = "none") =>
        \A v \in DOMAIN last_call'.action.vehicle_action :
           LET v_actions == last_call'.action.vehicle_action[v]
               route == vehicles[v].sequence_of_stops
               place == PlaceOf(route, v_actions[1].insertion_index)
               origin == IF place = 1 THEN vehicles[v].location
                         ELSE route[place - 1].destination
               stop == vehicles'[v].sequence_of_stops[place]
           IN Len(v_actions) = 1 =>
                 /\ stop.estimated_travel_time = _sample_travel_time(origin, stop.destination)
                 /\ stop.actual_travel_time = _sample_travel_time(origin, stop.destination)

\* C27: after a step that inserts one stop into a route, the travel time of that stop is
\* the travel time from its origin to its destination; the origin is the destination of
\* the stop before the place of insertion, and the location of the vehicle when the stop
\* is inserted at the head of the route.
C27_TravelFromOrigin == [][C27_Step]_vars

----------------------------------------------------------------------------
(* the advance of time *)

\* the customers of unknown_requests none of which orders earlier
Earliest == {c \in Range(unknown_requests) :
               \A d \in Range(unknown_requests) :
                  customers[c].order_time <= customers[d].order_time}

C24_Step ==
    (pc = "integrated" /\ pc' = "idle") =>
        IF unknown_requests # <<>>
        THEN \E c \in Earliest :
                /\ Len(unknown_requests') = Len(unknown_requests) - 1
                /\ Range(unknown_requests') = Range(unknown_requests) \ {c}
                /\ \A d \in Range(unknown_requests') : customers'[d].status = -1
                /\ customers[c].status = -1
                /\ customers'[c].status = 0
                /\ known_requests' = Append(known_requests, c)
                /\ unassigned_orders' =
                      unassigned_orders \o
                      [k \in 1..Len(customers[c].restaurant_choice) |->
                          <<c, customers[c].restaurant_choice[k]>>]
                /\ time' = customers[c].order_time
        ELSE /\ unknown_requests' = <<>>
             /\ unassigned_orders' = unassigned_orders
             /\ time' = time + 360

\* C24: a step with a customer yet to order reveals exactly one customer, one with the
\* earliest order time: it leaves unknown_requests, is waiting and known, gets one
\* unassigned pair for each restaurant of its choice, and the time is its order time.  A
\* step with nobody left to order reveals nobody, adds no pair and moves the time by 360.
C24_RevealOrForward == [][C24_Step]_vars

\* the second of two customers has just been revealed
C24_Witness ==
    /\ pc = "idle"
    /\ error = "none"
    /\ last_call.op = "advance"
    /\ unknown_requests = <<>>
    /\ Len(known_requests) = 2
    /\ time = customers[known_requests[2]].order_time
    /\ customers[known_requests[1]].order_time < time

----------------------------------------------------------------------------
(* the kinds of stops *)

StopKind(stop) ==
    /\ stop.type \in {"pickup", "delivery", "relocation"}
    /\ stop.type = "pickup" =>
           /\ stop.orders_to_pickup # NoneList /\ stop.orders_to_pickup # <<>>
           /\ stop.restaurant_id # None
           /\ stop.customer_id = None
    /\ stop.type = "delivery" =>
           /\ stop.customer_id # None
           /\ stop.restaurant_id = None
           /\ stop.estimated_wait_time = 0 /\ stop.actual_wait_time = 0
           /\ stop.orders_to_pickup = NoneList
    /\ stop.type = "relocation" =>
           /\ stop.customer_id = None
           /\ stop.restaurant_id = None
           /\ stop.estimated_wait_time = 0 /\ stop.actual_wait_time = 0
           /\ stop.orders_to_pickup = NoneList

\* C29: every stop of every route is of one of the three kinds: a pickup stop has a
\* non-empty pickup list, a restaurant and no customer; a delivery stop has a customer,
\* no restaurant, waits of zero and no pickup list; a relocation stop has neither
\* reference, waits of zero and no pickup list.
C29_StopKind ==
    \A v \in DOMAIN vehicles :
       \A k \in 1..Len(vehicles[v].sequence_of_stops) :
          StopKind(vehicles[v].sequence_of_stops[k])

\* the same without the pickup list of deliveries and relocations
C29_StopKindAsserted ==
    \A v \in DOMAIN vehicles :
       \A k \in 1..Len(vehicles[v].sequence_of_stops) :
          LET stop == vehicles[v].sequence_of_stops[k]
          IN StopAsserts(stop.type, stop.restaurant_id, stop.customer_id,
                         stop.estimated_wait_time, stop.actual_wait_time,
                         stop.orders_to_pickup)

----------------------------------------------------------------------------
(* reset *)

C22_Step ==
    (day' # day) =>
        /\ day' = day + 1
        /\ time' = 0
        /\ known_requests' = <<>>
        /\ served_requests' = <<>>
        /\ unassigned_orders' = <<>>
        /\ error' = "none" => DOMAIN vehicles' = 0..(n_vehicles - 1)
        /\ \A v \in DOMAIN vehicles' :
              /\ vehicles'[v].sequence_of_stops = <<>>
              /\ vehicles'[v].orders_in_backpack = <<>>
              /\ vehicles'[v].location = vehicle_location_list[v + 1]
        /\ \A r \in DOMAIN restaurants' :
              /\ restaurants'[r].queue = <<>>
              /\ restaurants'[r].time_queue = <<>>
              /\ restaurants'[r].estimated_time_queue = <<>>
              /\ restaurants'[r].prepared_orders = <<>>
        /\ \A c \in DOMAIN customers' :
              /\ customers'[c].status = -1
              /\ c \in Range(unknown_requests')
        /\ Range(unknown_requests') = DOMAIN customers'
        /\ Len(unknown_requests') = Cardinality(DOMAIN customers')

\* C22: reset, in whatever state it is called, counts the day up by one and leaves the
\* time at 0, no known, served or unassigned entry, every vehicle at its start location
\* with an empty route and an empty backpack, every restaurant with empty queue, ready
\* times and prepared list, and every customer unrevealed and in unknown_requests.
C22_ResetDiscardsDay == [][C22_Step]_vars

\* a reset on a later day, with customers to come
C22_Witness ==
    /\ day = SimpleDays
    /\ last_call.op = "reset"
    /\ error = "none"
    /\ time = 0
    /\ unknown_requests # <<>>

\* no reset is called with every customer served
C22_NoResetWhenDone ==
    [][~(day' # day /\ pc = "idle" /\ served_requests # <<>> /\ done(Engine))]_vars

\* no reset is called with customers waiting and stops in a route
C22_NoResetWhenActive ==
    [][~(day' # day /\ pc = "idle" /\ known_requests # <<>>
         /\ \E v \in DOMAIN vehicles : vehicles[v].sequence_of_stops # <<>>)]_vars

----------------------------------------------------------------------------
(* the backpack *)

\* the backpack after the stops of popped have been completed one after the other: a
\* pickup stop adds its pairs, a delivery stop takes out the pairs of its customer
RECURSIVE BackpackAfter(_, _)
BackpackAfter(backpack, popped) ==
    IF popped = <<>> THEN backpack
    ELSE LET stop == Head(popped)
         IN BackpackAfter(
                IF stop.type = "pickup"
                THEN backpack \o [k \in 1..Len(stop.orders_to_pickup) |->
                                     <<stop.restaurant_id, stop.orders_to_pickup[k]>>]
                ELSE IF stop.type = "delivery"
                THEN SelectSeq(backpack, LAMBDA rc : rc[2] # stop.customer_id)
                ELSE backpack,
                Tail(popped))

C23_EachPairOnce ==
    \A v \in DOMAIN vehicles :
       \A j, k \in 1..Len(vehicles[v].orders_in_backpack) :
          j # k => vehicles[v].orders_in_backpack[j] # vehicles[v].orders_in_backpack[k]

C23_Step ==
    /\ (pc = "integrated" /\ pc' = "idle" /\ error' = "none") =>
           \A v \in DOMAIN vehicles :
              vehicles'[v].orders_in_backpack =
                  BackpackAfter(vehicles[v].orders_in_backpack,
                                VehicleUpdate(vehicles[v], time').popped)
    /\ (pc = "idle" /\ pc' = "integrated") =>
           \A v \in DOMAIN vehicles :
              vehicles'[v].orders_in_backpack = vehicles[v].orders_in_backpack

\* C23: after every step a backpack holds the pairs it held before, with the pairs of the
\* pickup stops the vehicle completed in the step added and the pairs of the customers of
\* the delivery stops it completed afterwards taken out, each pair at most once; nothing
\* else changes a backpack: the backpack is the pairs picked up and not yet delivered.
C23_Backpack == []C23_EachPairOnce /\ [][C23_Step]_vars

\* a vehicle has picked up the two orders of a customer and delivered them: the customer
\* is served and the backpack is empty again
C23_Witness ==
    /\ pc = "idle"
    /\ error = "none"
    /\ last_call.op = "advance"
    /\ \E c \in DOMAIN customers :
          /\ customers[c].status = 1
          /\ Len(customers[c].restaurant_choice) = 2
    /\ \A v \in DOMAIN vehicles : vehicles[v].orders_in_backpack = <<>>

----------------------------------------------------------------------------
(* pickups and the restaurants *)

\* the customers whose orders restaurant r has in the list named by field
CustomersIn(r, field) == {r[field][k].customer_id : k \in 1..Len(r[field])}

C25_Step ==
    (pc = "integrated" /\ pc' = "idle" /\ error' = "none") =>
        LET s == UpdateRestaurants(RevealOrForward(Engine), 0)
        IN \A v \in DOMAIN vehicles :
              LET popped == VehicleUpdate(s.vehicles[v], s.time).popped
              IN \A k \in 1..Len(popped) :
                    popped[k].type = "pickup" =>
                        \A c \in Range(popped[k].orders_to_pickup) :
                           /\ c \in CustomersIn(s.restaurants[popped[k].restaurant_id],
                                                 "prepared_orders")
                           /\ c \notin CustomersIn(s.restaurants[popped[k].restaurant_id],
                                                    "queue")

\* C25: when a pickup stop is completed in a step, every order of its pickup list is in
\* the prepared list of the restaurant and not in its queue, as the restaurants stand
\* in that step when the vehicles are updated.
C25_PickupSynchronized == [][C25_Step]_vars

C26_Step ==
    (pc = "integrated" /\ pc' = "idle" /\ error' = "none") =>
        \A v \in DOMAIN vehicles :
           LET popped == VehicleUpdate(vehicles[v], time').popped
           IN \A k \in 1..Len(popped) :
                 popped[k].type = "pickup" =>
                     \A c \in Range(popped[k].orders_to_pickup) :
                        c \notin CustomersIn(restaurants'[popped[k].restaurant_id],
                                             "prepared_orders")

\* C26: after a step none of the orders of a pickup stop completed in the step is in
\* the prepared list of the stop's restaurant, however many pickup stops (at the same
\* restaurant or not) the vehicle completed in the step.
C26_PickedUpLeavesPrepared == [][C26_Step]_vars

----------------------------------------------------------------------------
(* restaurant actions before vehicle actions *)

\* the arrival at stop k of a route that is left at base: each stop begins when the one
\* before has been left and not before its start_at, takes its travel and park time to
\* arrive and is left after its wait; which tells the estimated from the actual fields
ArrivalAt(route, k, base, which) ==
    LET travel(st) == IF which = "estimated" THEN st.estimated_travel_time
                      ELSE st.actual_travel_time
        park(st) == IF which = "estimated" THEN st.estimated_park_time
                    ELSE st.actual_park_time
        wait(st) == IF which = "estimated" THEN st.estimated_wait_time
                    ELSE st.actual_wait_time
        A[n \in 1..k] ==
            LET left == IF n = 1 THEN base ELSE A[n - 1] + wait(route[n - 1])
            IN Max2(route[n].start_at, left) + travel(route[n]) + park(route[n])
    IN A[k]

\* the place of customer c's order in the queue of restaurant r, 0 if it has none
PlaceInQueue(r, c) ==
    IF \E i \in 1..Len(r.queue) : r.queue[i].customer_id = c
    THEN CHOOSE i \in 1..Len(r.queue) : r.queue[i].customer_id = c
    ELSE 0

C21_Step ==
    (pc = "idle" /\ pc' = "integrated") =>
        LET restaurant_action == last_call'.action.restaurant_action
            vehicle_action == last_call'.action.vehicle_action
        IN \A r \in DOMAIN restaurant_action \cap DOMAIN restaurants :
              \A v \in DOMAIN vehicle_action :
                 \A j \in 1..Len(vehicle_action[v]) :
                    LET c == restaurant_action[r][1].customer_id
                        a == vehicle_action[v][j]
                        route == vehicles'[v].sequence_of_stops
                        base == IF route # <<>> /\ route[1].started_at # None
                                THEN route[1].started_at ELSE time
                        i == PlaceInQueue(restaurants'[r], c)
                    IN (a.destination.kind = "r" /\ a.destination.id = r
                        /\ a.orders_to_pickup = <<c>>) =>
                           /\ error' = "none"
                           /\ i \in 1..Len(restaurants'[r].estimated_time_queue)
                           /\ i \in 1..Len(restaurants'[r].time_queue)
                           /\ \E k \in 1..Len(route) :
                                 /\ route[k].type = "pickup"
                                 /\ route[k].restaurant_id = r
                                 /\ route[k].orders_to_pickup = <<c>>
                                 /\ route[k].estimated_wait_time =
                                       Max2(0, restaurants'[r].estimated_time_queue[i]
                                               - ArrivalAt(route, k, base, "estimated"))
                                 /\ route[k].actual_wait_time =
                                       Max2(0, restaurants'[r].time_queue[i]
                                               - ArrivalAt(route, k, base, "actual"))

\* C21: when one action gives the order of customer c to restaurant r and a pickup stop
\* at r for c to a vehicle, the step succeeds and the stop's waits are those for c's
\* order in the queue: the estimated wait is max(0, estimated ready time of the order -
\* estimated arrival at the stop), the actual wait max(0, ground-truth ready time -
\* actual arrival).
C21_RestaurantsBeforeVehicles == [][C21_Step]_vars

----------------------------------------------------------------------------
(* the queue of a restaurant and its two series *)

\* C31: after any take_order and update calls that returned, the queue of a restaurant,
\* its ground-truth ready times and its estimated ready times have the same length (so
\* that position i of each series can belong to the order at position i of the queue).
C31_SeriesAligned ==
    error = "none" => \A r \in DOMAIN restaurants : Aligned(restaurants[r])

----------------------------------------------------------------------------
(* the customers of the day *)

\* how often x is in list
Count(list, x) == Cardinality({k \in 1..Len(list) : list[k] = x})

C32_OneCollection ==
    \A c \in DOMAIN customers :
       /\ Count(unknown_requests, c) + Count(known_requests, c)
             + Count(served_requests, c) = 1
       /\ customers[c].status = -1 <=> c \in Range(unknown_requests)
       /\ customers[c].status = 0 <=> c \in Range(known_requests)
       /\ customers[c].status = 1 <=> c \in Range(served_requests)

\* a step in which a delivery stop at a served customer is completed returns
C32_Step ==
    (/\ pc = "integrated" /\ pc' = "idle"
     /\ \E v \in DOMAIN vehicles :
           LET popped == VehicleUpdate(vehicles[v], time').popped
           IN \E k \in 1..Len(popped) :
                 /\ popped[k].type = "delivery"
                 /\ popped[k].customer_id \in Range(served_requests))
    => error' = "none"

\* C32: every customer of the day is in exactly one of unknown_requests, known_requests
\* and served_requests, once, with the status of that list (-1, 0, 1); a step in which a
\* delivery stop is completed at a customer who is served already does not fail and
\* does not add the customer to served_requests again.
C32_CustomerInOneCollection == []C32_OneCollection /\ [][C32_Step]_vars

\* C33: after a reset that returned, every restaurant of every customer's
\* restaurant_choice is one of the restaurants of the engine, however many restaurants
\* are configured.
C33_ChosenRestaurantsExist ==
    (pc = "idle" /\ error = "none") =>
        \A c \in DOMAIN customers :
           \A k \in 1..Len(customers[c].restaurant_choice) :
              customers[c].restaurant_choice[k] \in DOMAIN restaurants

\* C34: whenever a step has returned with done true, served_requests is not empty (the
\* divisor of mean_delay, which main.py reads then, is not 0).
C34_DoneHasServed ==
    (pc = "idle" /\ last_call.op = "advance" /\ error = "none" /\ done(Engine))
        => Len(served_requests) # 0

====
